---- MODULE Spec2Model ----
(***************************************************************************)
(* A model of bedrock-kb-mcp-server: the tool functions of main.py, the    *)
(* request models of models.py, the gateway of bedrock_client.py and the   *)
(* normalizers and the handle_errors decorator of utils.py.                *)
(*                                                                         *)
(* Python strings that the code takes apart (references, names) are        *)
(* sequences of one-character strings.  Message strings that the code only *)
(* builds and passes on are "texts": sequences of parts, a part being      *)
(* either a literal or an interpolated string value.  The Japanese         *)
(* literals of utils.py are written in ASCII, prefixed "JP:".              *)
(***************************************************************************)
EXTENDS Integers, Sequences, FiniteSets, TLC

(***************************************************************************)
(* Bounds of the model.                                                    *)
(***************************************************************************)
\* leading / trailing whitespace characters put around a reference
MaxPad == 1
\* path segments after the bucket of a storage reference
MaxPathSegs == 2

(***************************************************************************)
(* Program constants.                                                      *)
(***************************************************************************)
MinBucketLen == 3
MaxBucketLen == 63
AccountIdLen == 12
MaxNameLen == 100

(***************************************************************************)
(* Strings.                                                                *)
(***************************************************************************)
Lower == {"a", "b", "c", "d", "e", "f", "g", "h", "i", "j", "k", "l", "m",
          "n", "o", "p", "q", "r", "s", "t", "u", "v", "w", "x", "y", "z"}
Digit == {"0", "1", "2", "3", "4", "5", "6", "7", "8", "9"}
\* the characters str.strip() removes
Whitespace == {" ", "\t", "\n"}

\* s * n of Python for a one-character s
Rep(c, n) == [i \in 1..n |-> c]

\* str.startswith
StartsWith(s, p) == Len(s) >= Len(p) /\ SubSeq(s, 1, Len(p)) = p

\* s[n:]
Drop(s, n) == SubSeq(s, n + 1, Len(s))

RECURSIVE LStrip(_)
LStrip(s) == IF s # <<>> /\ Head(s) \in Whitespace THEN LStrip(Tail(s)) ELSE s

RECURSIVE RStrip(_)
RStrip(s) ==
    IF s # <<>> /\ s[Len(s)] \in Whitespace THEN RStrip(SubSeq(s, 1, Len(s) - 1)) ELSE s

\* str.strip()
Strip(s) == RStrip(LStrip(s))

\* s.split(c)[0]: everything before the first c
RECURSIVE SplitFirst(_, _)
SplitFirst(s, c) ==
    IF s = <<>> \/ Head(s) = c THEN <<>> ELSE <<Head(s)>> \o SplitFirst(Tail(s), c)

\* s.replace(old, ""): every non-overlapping occurrence of old removed, left to right
RECURSIVE RemoveAll(_, _)
RemoveAll(s, old) ==
    IF s = <<>> THEN <<>>
    ELSE IF StartsWith(s, old) THEN RemoveAll(Drop(s, Len(old)), old)
    ELSE <<Head(s)>> \o RemoveAll(Tail(s), old)

\* old in s
RECURSIVE Contains(_, _)
Contains(s, old) ==
    IF Len(s) < Len(old) THEN FALSE
    ELSE StartsWith(s, old) \/ Contains(Tail(s), old)

(***************************************************************************)
(* Texts: the messages of exceptions, envelopes and log lines.             *)
(***************************************************************************)
Lit(t) == [lit |-> t, val |-> <<>>]
Val(v) == [lit |-> "", val |-> v]
T(t) == <<Lit(t)>>

(***************************************************************************)
(* Outcomes of a Python call: a returned value or a raised exception.      *)
(* An exception has a type, its str() as a text and, for botocore's        *)
(* ClientError, the parsed error response.  pydantic's ValidationError is  *)
(* a subclass of ValueError.                                               *)
(***************************************************************************)
NoResponse == [Code |-> "<absent>", Message |-> <<>>, HasMessage |-> FALSE, RequestId |-> "<absent>"]
Absent == "<absent>"

Return(v) == [kind |-> "return", value |-> v]
Raise(e) == [kind |-> "raise", exc |-> e]
\* errors: the collected field errors of a pydantic ValidationError
ValueError(m) == [type |-> "ValueError", msg |-> m, response |-> NoResponse, errors |-> <<>>]
OtherException(m) == [type |-> "Exception", msg |-> m, response |-> NoResponse, errors |-> <<>>]

IsValueError(e) == e.type \in {"ValueError", "ValidationError"}

(***************************************************************************)
(* utils.py: normalize_s3_arn_or_uri                                       *)
(***************************************************************************)
S3_URI_PREFIX == <<"s", "3", ":", "/", "/">>
S3_ARN_PREFIX == <<"a", "r", "n", ":", "a", "w", "s", ":", "s", "3", ":", ":", ":">>

normalize_s3_arn_or_uri_no_length_check(value0) ==
    IF value0 = <<>> THEN Raise(ValueError(T("S3 ARN or URI cannot be empty")))
    ELSE LET value == Strip(value0) IN
         IF StartsWith(value, S3_ARN_PREFIX) THEN Return(value)
         ELSE IF StartsWith(value, S3_URI_PREFIX) THEN
             LET bucket_name == SplitFirst(Drop(value, 5), "/") IN
             IF bucket_name = <<>> THEN
                 Raise(ValueError(<<Lit("Invalid S3 URI format: "), Val(value),
                                    Lit(". Bucket name is required.")>>))
             ELSE Return(S3_ARN_PREFIX \o bucket_name)
         ELSE Raise(ValueError(<<Lit("Invalid S3 ARN or URI format: "), Val(value),
                                 Lit(". Must be either 'arn:aws:s3:::bucket-name' or 's3://bucket-name'")>>))

normalize_s3_arn_or_uri_keeps_path(value0) ==
    IF value0 = <<>> THEN Raise(ValueError(T("S3 ARN or URI cannot be empty")))
    ELSE LET value == Strip(value0) IN
         IF StartsWith(value, S3_ARN_PREFIX) THEN Return(value)
         ELSE IF StartsWith(value, S3_URI_PREFIX) THEN
             LET bucket_name == SplitFirst(Drop(value, 5), "/") IN
             IF bucket_name = <<>> THEN
                 Raise(ValueError(<<Lit("Invalid S3 URI format: "), Val(value),
                                    Lit(". Bucket name is required.")>>))
             ELSE IF Len(bucket_name) < MinBucketLen \/ Len(bucket_name) > MaxBucketLen THEN
                 Raise(ValueError(<<Lit("Invalid bucket name length: "), Val(bucket_name),
                                    Lit(". Must be 3-63 characters.")>>))
             ELSE Return(S3_ARN_PREFIX \o Drop(value, 5))
         ELSE Raise(ValueError(<<Lit("Invalid S3 ARN or URI format: "), Val(value),
                                 Lit(". Must be either 'arn:aws:s3:::bucket-name' or 's3://bucket-name'")>>))

normalize_s3_arn_or_uri(value0) ==
    IF value0 = <<>> THEN Raise(ValueError(T("S3 ARN or URI cannot be empty")))
    ELSE LET value == Strip(value0) IN
         IF StartsWith(value, S3_ARN_PREFIX) THEN Return(value)
         ELSE IF StartsWith(value, S3_URI_PREFIX) THEN
             LET bucket_name == SplitFirst(Drop(value, 5), "/") IN
             IF bucket_name = <<>> THEN
                 Raise(ValueError(<<Lit("Invalid S3 URI format: "), Val(value),
                                    Lit(". Bucket name is required.")>>))
             ELSE IF Len(bucket_name) < MinBucketLen \/ Len(bucket_name) > MaxBucketLen THEN
                 Raise(ValueError(<<Lit("Invalid bucket name length: "), Val(bucket_name),
                                    Lit(". Must be 3-63 characters.")>>))
             ELSE Return(S3_ARN_PREFIX \o bucket_name)
         ELSE Raise(ValueError(<<Lit("Invalid S3 ARN or URI format: "), Val(value),
                                 Lit(". Must be either 'arn:aws:s3:::bucket-name' or 's3://bucket-name'")>>))

(***************************************************************************)
(* The external services.  A call is recorded as [svc, op, params]; the    *)
(* collaborator answers it with a response or with an exception.           *)
(***************************************************************************)
Call(svc, op, params) == [svc |-> svc, op |-> op, params |-> params]

\* botocore's ClientError: str(e) is built from the parsed error response
ClientError(op, code, hasMessage, message, requestId) ==
    [type |-> "ClientError",
     msg |-> <<Lit("An error occurred ("), Lit(IF code = Absent THEN "Unknown" ELSE code),
               Lit(") when calling the "), Lit(op), Lit(" operation: ")>>
             \o (IF hasMessage THEN message ELSE T("Unknown")),
     response |-> [Code |-> code, Message |-> message, HasMessage |-> hasMessage,
                   RequestId |-> requestId],
     errors |-> <<>>]

\* what a function did: its outcome, the external calls it made, the lines it logged
Did(out, calls, log) == [out |-> out, calls |-> calls, log |-> log]
LogLine(level, msg) == [level |-> level, msg |-> msg]

(***************************************************************************)
(* utils.py: get_aws_account_id.  sts is the identity service's answer to  *)
(* get_caller_identity: [kind |-> "ok", Account |-> id] (Account <<>> when *)
(* the response carries none) or [kind |-> "raise", exc |-> e].            *)
(***************************************************************************)
StsCall == Call("sts", "get_caller_identity", <<>>)

get_aws_account_id_empty_account_accepted(sts) ==
    IF sts.kind = "raise" THEN
        Did(Raise(sts.exc), <<StsCall>>,
            <<LogLine("ERROR", <<Lit(IF sts.exc.type = "ClientError"
                                     THEN "Error retrieving AWS account ID: "
                                     ELSE "Unexpected error retrieving AWS account ID: ")>>
                               \o sts.exc.msg)>>)
    ELSE Did(Return(sts.Account), <<StsCall>>,
             <<LogLine("DEBUG", <<Lit("Retrieved AWS account ID: "), Val(sts.Account)>>)>>)

get_aws_account_id(sts) ==
    IF sts.kind = "raise" THEN
        Did(Raise(sts.exc), <<StsCall>>,
            <<LogLine("ERROR", <<Lit(IF sts.exc.type = "ClientError"
                                     THEN "Error retrieving AWS account ID: "
                                     ELSE "Unexpected error retrieving AWS account ID: ")>>
                               \o sts.exc.msg)>>)
    ELSE IF sts.Account = <<>> THEN
        \* the ValueError is raised inside the try and logged by "except Exception"
        LET m == T("Failed to retrieve AWS account ID from STS response") IN
        Did(Raise(ValueError(m)), <<StsCall>>,
            <<LogLine("ERROR", T("Unexpected error retrieving AWS account ID: ") \o m)>>)
    ELSE Did(Return(sts.Account), <<StsCall>>,
             <<LogLine("DEBUG", <<Lit("Retrieved AWS account ID: "), Val(sts.Account)>>)>>)

(***************************************************************************)
(* utils.py: normalize_iam_role_arn                                        *)
(***************************************************************************)
IAM_ARN_PREFIX == <<"a", "r", "n", ":", "a", "w", "s", ":", "i", "a", "m", ":", ":">>
ROLE_PREFIX == <<"r", "o", "l", "e", "/">>
COLON_ROLE_PREFIX == <<":">> \o ROLE_PREFIX
IAM_SHORT_PREFIX == IAM_ARN_PREFIX \o ROLE_PREFIX

\* re.match(r"^arn:aws:iam::(\d{12}):role/(.+)$", value)
MatchesArnPattern(value) ==
    /\ StartsWith(value, IAM_ARN_PREFIX)
    /\ LET rest == Drop(value, Len(IAM_ARN_PREFIX)) IN
       /\ Len(rest) >= AccountIdLen
       /\ \A i \in 1..AccountIdLen : rest[i] \in Digit
       /\ LET tail == Drop(rest, AccountIdLen) IN
          /\ StartsWith(tail, COLON_ROLE_PREFIX)
          /\ LET name == Drop(tail, Len(COLON_ROLE_PREFIX)) IN
             /\ Len(name) >= 1
             \* "." matches no newline; "$" also matches before one final newline
             /\ \A i \in 1..(Len(name) - 1) : name[i] # "\n"
             /\ (name[Len(name)] = "\n" => Len(name) >= 2)

InvalidRoleArn(value) ==
    Did(Raise(ValueError(<<Lit("Invalid IAM role ARN format: "), Val(value),
              Lit(". Must be either 'arn:aws:iam::ACCOUNT_ID:role/ROLE_NAME' or 'role/ROLE_NAME'")>>)),
        <<>>, <<>>)

\* the two shorthand branches: remove the prefix, look the account up, rebuild
CompleteRoleArn(value, prefix, sts) ==
    LET role_name == RemoveAll(value, prefix)
        acct == get_aws_account_id(sts)
    IN  IF acct.out.kind = "raise" THEN acct
        ELSE LET normalized_arn == IAM_ARN_PREFIX \o acct.out.value \o COLON_ROLE_PREFIX \o role_name IN
             Did(Return(normalized_arn), acct.calls,
                 acct.log \o <<LogLine("DEBUG", <<Lit("Normalized IAM role ARN '"), Val(value),
                                                  Lit("' to '"), Val(normalized_arn), Lit("'")>>)>>)

normalize_iam_role_arn(value0, sts) ==
    IF value0 = <<>> THEN
        Did(Raise(ValueError(T("IAM role ARN cannot be empty"))), <<>>, <<>>)
    ELSE LET value == Strip(value0) IN
         IF MatchesArnPattern(value) THEN Did(Return(value), <<>>, <<>>)
         ELSE IF StartsWith(value, IAM_SHORT_PREFIX) THEN CompleteRoleArn(value, IAM_SHORT_PREFIX, sts)
         ELSE IF StartsWith(value, ROLE_PREFIX) THEN CompleteRoleArn(value, ROLE_PREFIX, sts)
         ELSE InvalidRoleArn(value)

(***************************************************************************)
(* utils.py: StructuredFormatter and the formatter setup_logging installs.  *)
(* A message is a sequence of literal texts and values; the patterns are   *)
(* applied to each value, character by character.  What they do to the     *)
(* literal text between the values, and a match that runs on from a value  *)
(* into the text after it, is not followed: neither brings a value back.   *)
(***************************************************************************)
\* the case folding of re.IGNORECASE for the letters the keywords have
Fold(c) ==
    LET upper == <<"A", "B", "C", "D", "E", "F", "G", "H", "I", "J", "K", "L", "M",
                   "N", "O", "P", "Q", "R", "S", "T", "U", "V", "W", "X", "Y", "Z">>
        lower == <<"a", "b", "c", "d", "e", "f", "g", "h", "i", "j", "k", "l", "m",
                   "n", "o", "p", "q", "r", "s", "t", "u", "v", "w", "x", "y", "z">>
    IN  IF \E i \in DOMAIN upper : upper[i] = c
        THEN lower[CHOOSE i \in DOMAIN upper : upper[i] = c] ELSE c

\* where the longest run of characters of s that starts at i and satisfies
\* 'inside = (character \in set)' ends; i - 1 when the run is empty
RunEnd(s, i, set, inside) ==
    LET ends == {j \in (i - 1)..Len(s) : \A k \in i..j : (s[k] \in set) = inside}
    IN  CHOOSE j \in ends : \A m \in ends : m <= j

MASKED == <<"*", "*", "*", "M", "A", "S", "K", "E", "D", "*", "*", "*">>

\* ARN_PATTERN = arn:aws:[^:]+:[^:]*:[^:]*:[^:]+ matched at the start of s: the
\* length of the match, 0 when there is none
ARN_PATTERN_match(s) ==
    LET start == <<"a", "r", "n", ":", "a", "w", "s", ":">> IN
    IF ~StartsWith(s, start) THEN 0
    ELSE LET a == Len(start) + 1
             e1 == RunEnd(s, a, {":"}, FALSE)
         IN  IF e1 < a \/ e1 + 1 > Len(s) THEN 0
             ELSE LET e2 == RunEnd(s, e1 + 2, {":"}, FALSE) IN
                  IF e2 + 1 > Len(s) THEN 0
                  ELSE LET e3 == RunEnd(s, e2 + 2, {":"}, FALSE) IN
                       IF e3 + 1 > Len(s) THEN 0
                       ELSE LET e4 == RunEnd(s, e3 + 2, {":"}, FALSE) IN
                            IF e4 < e3 + 2 THEN 0 ELSE e4

\* ARN_PATTERN.sub('arn:aws:***MASKED***', s)
RECURSIVE ARN_PATTERN_sub(_)
ARN_PATTERN_sub(s) ==
    IF s = <<>> THEN <<>>
    ELSE LET e == ARN_PATTERN_match(s) IN
         IF e > 0 THEN <<"a", "r", "n", ":", "a", "w", "s", ":">> \o MASKED \o ARN_PATTERN_sub(Drop(s, e))
         ELSE <<Head(s)>> \o ARN_PATTERN_sub(Tail(s))

SENSITIVE_KEYWORDS ==
    <<<<"a", "r", "n">>,
      <<"r", "o", "l", "e", "_", "a", "r", "n">>,
      <<"b", "u", "c", "k", "e", "t", "_", "a", "r", "n">>,
      <<"a", "c", "c", "e", "s", "s", "_", "k", "e", "y">>,
      <<"s", "e", "c", "r", "e", "t">>,
      <<"p", "a", "s", "s", "w", "o", "r", "d">>,
      <<"t", "o", "k", "e", "n">>,
      <<"c", "r", "e", "d", "e", "n", "t", "i", "a", "l">>,
      <<"a", "u", "t", "h", "o", "r", "i", "z", "a", "t", "i", "o", "n">>,
      <<"a", "w", "s", "_", "a", "c", "c", "e", "s", "s", "_", "k", "e", "y", "_", "i", "d">>,
      <<"a", "w", "s", "_", "s", "e", "c", "r", "e", "t", "_", "a", "c", "c", "e", "s", "s", "_", "k", "e", "y">>,
      <<"s", "e", "s", "s", "i", "o", "n", "_", "t", "o", "k", "e", "n">>>>

\* keyword\s*[:=]\s*([^\s,}]+) with re.IGNORECASE matched at the start of s: the
\* length of the match, 0 when there is none
KeywordMatch(keyword, s) ==
    IF Len(s) < Len(keyword) \/ [k \in 1..Len(keyword) |-> Fold(s[k])] # keyword THEN 0
    ELSE LET sep == RunEnd(s, Len(keyword) + 1, Whitespace, TRUE) + 1 IN
         IF sep > Len(s) \/ s[sep] \notin {":", "="} THEN 0
         ELSE LET from == RunEnd(s, sep + 1, Whitespace, TRUE) + 1
                  to == RunEnd(s, from, Whitespace \cup {",", "}"}, FALSE)
              IN  IF to < from THEN 0 ELSE to

\* pattern.sub(f'{keyword}=***MASKED***', s)
RECURSIVE KeywordSub(_, _)
KeywordSub(keyword, s) ==
    IF s = <<>> THEN <<>>
    ELSE LET e == KeywordMatch(keyword, s) IN
         IF e > 0 THEN keyword \o <<"=">> \o MASKED \o KeywordSub(keyword, Drop(s, e))
         ELSE <<Head(s)>> \o KeywordSub(keyword, Tail(s))

\* the loop over SENSITIVE_KEYWORDS, from the n-th keyword on
RECURSIVE MaskKeywords(_, _)
MaskKeywords(n, s) ==
    IF n > Len(SENSITIVE_KEYWORDS) THEN s
    ELSE MaskKeywords(n + 1, KeywordSub(SENSITIVE_KEYWORDS[n], s))

\* every pattern needs a ":" or a "=" to match: a value without one stays as it is
StructuredFormatter_sanitize_message(message) ==
    [i \in DOMAIN message |->
        IF \A k \in DOMAIN message[i].val : message[i].val[k] \notin {":", "="} THEN message[i]
        ELSE Val(MaskKeywords(1, ARN_PATTERN_sub(message[i].val)))]

\* what the handler writes for a record: the structured formatter writes the
\* sanitized message and, for a record logged with exc_info, the formatted
\* exception (its last line is the exception's text); logging.Formatter writes
\* "%(message)s" as it is, and the formatted exception as well
Formatted(structured, line, exc_text) ==
    [level |-> line.level,
     message |-> IF structured THEN StructuredFormatter_sanitize_message(line.msg) ELSE line.msg,
     exception |-> exc_text]

(***************************************************************************)
(* utils.py: validate_required_string                                      *)
(***************************************************************************)
validate_required_string(value, param_name) ==
    IF value = <<>> \/ Strip(value) = <<>>
    THEN Raise(ValueError(<<Lit(param_name), Lit(" is required")>>))
    ELSE Return(Strip(value))

(***************************************************************************)
(* utils.py: handle_errors.  r is what the wrapped function did; the       *)
(* result is the dict returned to the caller (ret), whether an exception   *)
(* went past the wrapper (propagated) and the log, the wrapper's own line  *)
(* last.                                                                   *)
(***************************************************************************)
ErrorCodesWithMessage ==
    {"AccessDeniedException", "ResourceNotFoundException", "ValidationException",
     "ConflictException", "ThrottlingException", "ServiceUnavailableException",
     "InternalServerException", "InvalidParameterException", "InvalidRequestException",
     "LimitExceededException", "ResourceInUseException", "TooManyRequestsException",
     "UnauthorizedException", "BadRequestException", "NotFoundException",
     "ForbiddenException"}

error_messages(code) ==
    CASE code = "AccessDeniedException" -> T("JP: no access permission")
      [] code = "ResourceNotFoundException" -> T("JP: resource not found")
      [] code = "ValidationException" -> T("JP: input value is invalid")
      [] code = "ConflictException" -> T("JP: resource already exists or conflicts")
      [] code = "ThrottlingException" -> T("JP: too many requests. wait a while and retry")
      [] code = "ServiceUnavailableException" -> T("JP: service temporarily unavailable")
      [] code = "InternalServerException" -> T("JP: internal server error occurred")
      [] code = "InvalidParameterException" -> T("JP: parameter is invalid")
      [] code = "InvalidRequestException" -> T("JP: request is invalid")
      [] code = "LimitExceededException" -> T("JP: resource limit exceeded")
      [] code = "ResourceInUseException" -> T("JP: resource is in use")
      [] code = "TooManyRequestsException" -> T("JP: too many requests")
      [] code = "UnauthorizedException" -> T("JP: authentication failed")
      [] code = "BadRequestException" -> T("JP: bad request")
      [] code = "NotFoundException" -> T("JP: resource not found")
      [] code = "ForbiddenException" -> T("JP: access refused")

NoValue == [none |-> TRUE]
Handled(ret, log) == [ret |-> ret, propagated |-> FALSE, log |-> log]
Unhandled(log) == [ret |-> NoValue, propagated |-> TRUE, log |-> log]

\* the request id put into the reply whether or not the response carries one
ClientErrorEnvelope_always_request_id(func_name, r) ==
    LET resp == r.out.exc.response
        error_code == IF resp.Code = Absent THEN "Unknown" ELSE resp.Code
        error_message == IF resp.HasMessage THEN resp.Message ELSE r.out.exc.msg
        user_message == IF error_code \in ErrorCodesWithMessage
                        THEN error_messages(error_code) ELSE error_message
    IN  Handled([error |-> user_message, code |-> error_code, details |-> error_message,
                 request_id |-> resp.RequestId], r.log)

ClientErrorEnvelope(func_name, r) ==
    LET resp == r.out.exc.response
        error_code == IF resp.Code = Absent THEN "Unknown" ELSE resp.Code
        error_message == IF resp.HasMessage THEN resp.Message ELSE r.out.exc.msg
        user_message == IF error_code \in ErrorCodesWithMessage
                        THEN error_messages(error_code) ELSE error_message
        request_id == resp.RequestId
        line == LogLine("ERROR", <<Lit("Error in "), Lit(func_name), Lit(": "), Lit(error_code),
                                   Lit(" - ")>> \o error_message
                                 \o <<Lit(" (RequestId: "),
                                      Lit(IF request_id = Absent THEN "None" ELSE request_id),
                                      Lit(")")>>)
    IN  IF request_id # Absent /\ request_id # ""
        THEN Handled([error |-> user_message, code |-> error_code, details |-> error_message,
                      request_id |-> request_id], r.log \o <<line>>)
        ELSE Handled([error |-> user_message, code |-> error_code, details |-> error_message],
                     r.log \o <<line>>)

\* the reply's message given the context the log line has
ValueErrorEnvelope_with_context(func_name, r) ==
    Handled([error |-> <<Lit("Validation error in "), Lit(func_name), Lit(": ")>> \o r.out.exc.msg,
             code |-> "ValidationError"], r.log)

ValueErrorEnvelope(func_name, r) ==
    Handled([error |-> r.out.exc.msg, code |-> "ValidationError"],
            r.log \o <<LogLine("ERROR", <<Lit("Validation error in "), Lit(func_name), Lit(": ")>>
                                        \o r.out.exc.msg)>>)

INTERNAL_PREFIX == "JP: an unexpected error occurred: "

ExceptionEnvelope(func_name, r) ==
    Handled([error |-> T(INTERNAL_PREFIX) \o r.out.exc.msg, code |-> "InternalError"],
            r.log \o <<LogLine("ERROR", <<Lit("Unexpected error in "), Lit(func_name), Lit(": ")>>
                                        \o r.out.exc.msg)>>)

handle_errors_without_catch_all(func_name, r) ==
    IF r.out.kind = "return" THEN Handled(r.out.value, r.log)
    ELSE IF r.out.exc.type = "ClientError" THEN ClientErrorEnvelope(func_name, r)
    ELSE IF IsValueError(r.out.exc) THEN ValueErrorEnvelope(func_name, r)
    ELSE Unhandled(r.log)

handle_errors(func_name, r) ==
    IF r.out.kind = "return" THEN Handled(r.out.value, r.log)
    ELSE IF r.out.exc.type = "ClientError" THEN ClientErrorEnvelope(func_name, r)
    ELSE IF IsValueError(r.out.exc) THEN ValueErrorEnvelope(func_name, r)
    ELSE ExceptionEnvelope(func_name, r)

(***************************************************************************)
(* pydantic (v2) as models.py uses it.  A model validates its fields in    *)
(* declaration order and collects one error per failing field; a           *)
(* ValueError raised by a field validator is collected, any other          *)
(* exception leaves the validation at once.  The "after" model validator   *)
(* runs only when no field failed.  The errors are raised together as one  *)
(* ValidationError (a ValueError) whose str() lists them under a header.   *)
(***************************************************************************)
FieldError(loc, msg, input) == [loc |-> loc, msg |-> msg, input |-> input]

ErrorLines(e) ==
    (IF e.loc = "" THEN <<>> ELSE <<Lit(e.loc), Lit("\n")>>)
    \o <<Lit("  ")>> \o e.msg
    \o <<Lit(" [input_value="), Val(e.input), Lit("]\n    For further information visit "),
         Lit("https://errors.pydantic.dev/")>>

RECURSIVE AllErrorLines(_)
AllErrorLines(errors) ==
    IF errors = <<>> THEN <<>>
    ELSE <<Lit("\n")>> \o ErrorLines(Head(errors)) \o AllErrorLines(Tail(errors))

ValidationError(title, errors) ==
    [type |-> "ValidationError",
     msg |-> <<Lit(ToString(Len(errors))),
               Lit(IF Len(errors) = 1 THEN " validation error for " ELSE " validation errors for "),
               Lit(title)>> \o AllErrorLines(errors),
     response |-> NoResponse,
     errors |-> errors]

ValueErrorIn(msg) == T("Value error, ") \o msg

\* Field(..., min_length=lo, max_length=hi); hi = -1 when there is no max_length
LengthErrors(loc, v, lo, hi) ==
    IF Len(v) < lo THEN
        <<FieldError(loc, <<Lit("String should have at least "), Lit(ToString(lo)),
                            Lit(" character")>>, v)>>
    ELSE IF hi >= 0 /\ Len(v) > hi THEN
        <<FieldError(loc, <<Lit("String should have at most "), Lit(ToString(hi)),
                            Lit(" characters")>>, v)>>
    ELSE <<>>

(***************************************************************************)
(* models.py: ParsingConfiguration                                         *)
(***************************************************************************)
ParsingStrategies == {"BEDROCK_FOUNDATION_MODEL", "BEDROCK_DATA_AUTOMATION"}
NoParsing == [parsing_strategy |-> "", parsing_model_arn |-> <<>>,
              parsing_modality |-> <<>>, parsing_prompt_text |-> <<>>]

\* "x if x else None": an empty string and None are both kept as <<>>
ParsingConfiguration_no_model_check(c) == Return(c)

ParsingConfiguration(c) ==
    IF c.parsing_strategy = "BEDROCK_FOUNDATION_MODEL" /\ c.parsing_model_arn = <<>>
    THEN Raise(ValidationError("ParsingConfiguration",
             <<FieldError("", ValueErrorIn(T("parsing_model_arn is required for BEDROCK_FOUNDATION_MODEL parsing strategy")), <<>>)>>))
    ELSE Return(c)

\* main.py builds the optional vector ingestion configuration the same way in
\* create_knowledge_base and create_data_source
ChunkingStrategies == {"FIXED_SIZE", "HIERARCHICAL", "SEMANTIC", "NONE"}

\* an optional number left out. The tools pass a number on only when it is above 0
\* (main.py 301-305), so 0 is free to stand for Python's None; "overlap_percentage
\* or 0" then reads the same
None == 0
MaxOverlapPercentage == 100
MinOverlapPercentage == 0

NoChunking == [chunking_strategy |-> "", max_tokens |-> None, overlap_percentage |-> None,
               overlap_tokens |-> None, buffer_size |-> None,
               breakpoint_percentile_threshold |-> None]

IfPositive(n) == IF n > 0 THEN n ELSE None

\* the bound that lets every overlap through
ChunkingConfiguration_no_upper_bound(c) == Return(c)

ChunkingConfiguration(c) ==
    IF c.overlap_percentage # None /\ c.overlap_percentage > MaxOverlapPercentage
    THEN Raise(ValidationError("ChunkingConfiguration",
             <<FieldError("overlap_percentage",
                          <<Lit("Input should be less than or equal to "),
                            Lit(ToString(MaxOverlapPercentage))>>,
                          <<ToString(c.overlap_percentage)>>)>>))
    ELSE IF c.overlap_percentage # None /\ c.overlap_percentage < 0
    THEN Raise(ValidationError("ChunkingConfiguration",
             <<FieldError("overlap_percentage",
                          <<Lit("Input should be greater than or equal to "), Lit("0")>>,
                          <<ToString(c.overlap_percentage)>>)>>))
    ELSE Return(c)

BuildChunking(a) ==
    IF a.chunking_strategy = "" THEN Return(NoChunking)
    ELSE IF a.chunking_strategy \notin ChunkingStrategies THEN
        \* ChunkingStrategy(chunking_strategy): the Enum's own ValueError
        Raise(ValueError(<<Lit("'"), Lit(a.chunking_strategy), Lit("' is not a valid ChunkingStrategy")>>))
    ELSE ChunkingConfiguration(
             [chunking_strategy |-> a.chunking_strategy,
              max_tokens |-> IfPositive(a.chunking_max_tokens),
              overlap_percentage |-> IfPositive(a.chunking_overlap_percentage),
              overlap_tokens |-> IfPositive(a.chunking_overlap_tokens),
              buffer_size |-> IfPositive(a.chunking_buffer_size),
              breakpoint_percentile_threshold |-> IfPositive(a.chunking_breakpoint_threshold)])

BuildParsing(a) ==
    IF a.parsing_strategy = "" THEN Return(NoParsing)
    ELSE IF a.parsing_strategy \notin ParsingStrategies THEN
        \* ParsingStrategy(parsing_strategy): the Enum's own ValueError
        Raise(ValueError(<<Lit("'"), Lit(a.parsing_strategy), Lit("' is not a valid ParsingStrategy")>>))
    ELSE ParsingConfiguration([parsing_strategy |-> a.parsing_strategy,
                               parsing_model_arn |-> a.parsing_model_arn,
                               parsing_modality |-> a.parsing_modality,
                               parsing_prompt_text |-> a.parsing_prompt_text])

(***************************************************************************)
(* models.py: CreateKnowledgeBaseRequest                                   *)
(***************************************************************************)
StorageTypes == {"S3", "S3_VECTORS"}

validate_bucket_arn_kb(v) ==
    IF ~StartsWith(v, S3_ARN_PREFIX)
    THEN Raise(ValueError(T("Invalid S3 bucket ARN format")))
    ELSE Return(v)

validate_embedding_model(storage_type, embedding_model_arn) ==
    IF storage_type = "S3_VECTORS" /\ embedding_model_arn = <<>>
    THEN <<FieldError("", ValueErrorIn(T("embedding_model_arn is required for S3_VECTORS storage type")), <<>>)>>
    ELSE <<>>

\* the errors a field validator's outcome adds
ValidatorErrors(loc, out, input) ==
    IF out.kind = "raise" THEN <<FieldError(loc, ValueErrorIn(out.exc.msg), input)>> ELSE <<>>

\* validation that stops at the first failing field
CreateKnowledgeBaseRequest_fail_fast(a, sts) ==
    LET role == normalize_iam_role_arn(a.role_arn, sts)
        bucket == validate_bucket_arn_kb(a.bucket_arn)
        errors == LengthErrors("name", a.name, 1, MaxNameLen)
                  \o LengthErrors("description", a.description, 1, -1)
                  \o ValidatorErrors("role_arn", role.out, a.role_arn)
                  \o ValidatorErrors("bucket_arn", bucket, a.bucket_arn)
                  \o validate_embedding_model(a.storage_type, a.embedding_model_arn)
    IN  IF role.out.kind = "raise" /\ ~IsValueError(role.out.exc) THEN role
        ELSE IF errors # <<>> THEN
            Did(Raise(ValidationError("CreateKnowledgeBaseRequest", <<Head(errors)>>)),
                role.calls, role.log)
        ELSE Did(Return([name |-> a.name, description |-> a.description,
                         role_arn |-> role.out.value, storage_type |-> a.storage_type,
                         bucket_arn |-> bucket.value,
                         embedding_model_arn |-> a.embedding_model_arn]),
                 role.calls, role.log)

CreateKnowledgeBaseRequest(a, sts) ==
    LET role == normalize_iam_role_arn(a.role_arn, sts)
        bucket == validate_bucket_arn_kb(a.bucket_arn)
        errors == LengthErrors("name", a.name, 1, MaxNameLen)
                  \o LengthErrors("description", a.description, 1, -1)
                  \o ValidatorErrors("role_arn", role.out, a.role_arn)
                  \o ValidatorErrors("bucket_arn", bucket, a.bucket_arn)
        after == validate_embedding_model(a.storage_type, a.embedding_model_arn)
    IN  IF role.out.kind = "raise" /\ ~IsValueError(role.out.exc) THEN role
        ELSE IF errors # <<>> THEN
            Did(Raise(ValidationError("CreateKnowledgeBaseRequest", errors)), role.calls, role.log)
        ELSE IF after # <<>> THEN
            Did(Raise(ValidationError("CreateKnowledgeBaseRequest", after)), role.calls, role.log)
        ELSE Did(Return([name |-> a.name, description |-> a.description,
                         role_arn |-> role.out.value, storage_type |-> a.storage_type,
                         bucket_arn |-> bucket.value,
                         embedding_model_arn |-> a.embedding_model_arn]),
                 role.calls, role.log)

(***************************************************************************)
(* Python dicts with optional keys.                                        *)
(***************************************************************************)
EmptyDict == <<>>
Opt(key, present, value) == IF present THEN key :> value ELSE EmptyDict

(***************************************************************************)
(* models.py: VectorIngestionConfiguration.to_api_dict (parsing)           *)
(***************************************************************************)
ParsingApiDict(c) ==
    IF c.parsing_strategy = "BEDROCK_FOUNDATION_MODEL" THEN
        [parsingStrategy |-> c.parsing_strategy,
         bedrockFoundationModelConfiguration |->
             [modelArn |-> c.parsing_model_arn]
             @@ Opt("parsingModality", c.parsing_modality # <<>>, c.parsing_modality)
             @@ Opt("parsingPrompt", c.parsing_prompt_text # <<>>,
                    [parsingPromptText |-> c.parsing_prompt_text])]
    ELSE
        [parsingStrategy |-> c.parsing_strategy,
         bedrockDataAutomationConfiguration |->
             Opt("parsingModality", c.parsing_modality # <<>>, c.parsing_modality)]

\* a conversion that writes the sub-object of every strategy for which a value is given
ChunkingApiDict_every_variant(c) ==
    [chunkingStrategy |-> c.chunking_strategy]
    @@ Opt("fixedSizeChunkingConfiguration", c.max_tokens # None,
           [maxTokens |-> c.max_tokens, overlapPercentage |-> c.overlap_percentage])
    @@ Opt("hierarchicalChunkingConfiguration", c.overlap_tokens # None,
           [overlapTokens |-> c.overlap_tokens])
    @@ Opt("semanticChunkingConfiguration", c.buffer_size # None, [bufferSize |-> c.buffer_size])

ChunkingApiDict(c) ==
    [chunkingStrategy |-> c.chunking_strategy]
    @@ (CASE c.chunking_strategy = "FIXED_SIZE" ->
                 Opt("fixedSizeChunkingConfiguration", c.max_tokens # None,
                     [maxTokens |-> c.max_tokens, overlapPercentage |-> c.overlap_percentage])
          [] c.chunking_strategy = "HIERARCHICAL" ->
                 [hierarchicalChunkingConfiguration |->
                      Opt("overlapTokens", c.overlap_tokens # None, c.overlap_tokens)]
          [] c.chunking_strategy = "SEMANTIC" ->
                 [semanticChunkingConfiguration |->
                      Opt("maxTokens", c.max_tokens # None, c.max_tokens)
                      @@ Opt("bufferSize", c.buffer_size # None, c.buffer_size)
                      @@ Opt("breakpointPercentileThreshold",
                             c.breakpoint_percentile_threshold # None,
                             c.breakpoint_percentile_threshold)]
          [] OTHER -> EmptyDict)

to_api_dict(parsing, chunking) ==
    Opt("parsingConfiguration", parsing.parsing_strategy # "", ParsingApiDict(parsing))
    @@ Opt("chunkingConfiguration", chunking.chunking_strategy # "", ChunkingApiDict(chunking))

(***************************************************************************)
(* bedrock_client.py: the gateway.  ans is the service's answer to the one *)
(* call: [kind |-> "ok", resp |-> r] or [kind |-> "raise", exc |-> e].     *)
(* A ClientError is logged and raised again; a response that lacks a key   *)
(* the method indexes raises KeyError.                                     *)
(***************************************************************************)
KeyError(key) == OtherException(<<Lit("'"), Lit(key), Lit("'")>>)

InitLog(region) == <<LogLine("INFO", <<Lit("Initialized Bedrock client for region: "), Val(region)>>)>>

\* the shared shape of the gateway methods: one call, then the result dict
Gateway(call, ans, errorText, required, result) ==
    IF ans.kind = "raise" THEN
        Did(Raise(ans.exc), <<call>>,
            IF ans.exc.type = "ClientError"
            THEN <<LogLine("ERROR", errorText \o T(": ") \o ans.exc.msg)>> ELSE <<>>)
    ELSE IF \E k \in required : k \notin DOMAIN ans.resp THEN
        Did(Raise(KeyError(CHOOSE k \in required : k \notin DOMAIN ans.resp)), <<call>>, <<>>)
    ELSE Did(Return(result), <<call>>, <<>>)

BedrockKBClient_create_knowledge_base(name, description, role_arn, storage_configuration, knowledge_base_configuration, vector_ingestion_configuration, ans) ==
    LET api_params ==
            [name |-> name, description |-> description, roleArn |-> role_arn,
             storageConfiguration |-> storage_configuration]
            @@ Opt("knowledgeBaseConfiguration", knowledge_base_configuration # EmptyDict,
                   knowledge_base_configuration)
            @@ Opt("vectorIngestionConfiguration", vector_ingestion_configuration # EmptyDict,
                   vector_ingestion_configuration)
    IN  Gateway(Call("bedrock-agent", "create_knowledge_base", api_params), ans,
                T("Error creating knowledge base"),
                {"knowledgeBaseId", "knowledgeBaseStatus"},
                IF ans.kind = "ok" /\ {"knowledgeBaseId", "knowledgeBaseStatus"} \subseteq DOMAIN ans.resp
                THEN [knowledge_base_id |-> ans.resp.knowledgeBaseId,
                      status |-> ans.resp.knowledgeBaseStatus,
                      arn |-> IF "knowledgeBaseArn" \in DOMAIN ans.resp
                              THEN ans.resp.knowledgeBaseArn ELSE <<>>]
                ELSE EmptyDict)

(***************************************************************************)
(* main.py: create_knowledge_base                                          *)
(***************************************************************************)
\* a function's outcome after an earlier step's calls and log lines
After(first, then) == Did(then.out, first.calls \o then.calls, first.log \o then.log)
Pure(out) == Did(out, <<>>, <<>>)

CleanRegion(region) == IF region # <<>> THEN Strip(region) ELSE <<"u", "s", "-", "e", "a", "s", "t", "-", "1">>

StorageAndCreate(a, request, parsing, chunking, ans) ==
    LET multimodal_uri == Strip(a.multimodal_storage_s3_uri)
        vectors == request.storage_type = "S3_VECTORS"
        storage_configuration ==
            IF vectors
            THEN [type |-> "S3_VECTORS",
                  s3VectorsConfiguration |-> [vectorBucketArn |-> request.bucket_arn]]
            ELSE [type |-> "S3", s3Configuration |-> [bucketArn |-> request.bucket_arn]]
        vector_kb_config ==
            [embeddingModelArn |-> request.embedding_model_arn]
            @@ Opt("supplementalDataStorageConfiguration", a.multimodal_storage_s3_uri # <<>>,
                   [storageLocations |-> <<[type |-> "S3", s3Location |-> [uri |-> multimodal_uri]]>>])
        knowledge_base_configuration ==
            IF vectors THEN [type |-> "VECTOR", vectorKnowledgeBaseConfiguration |-> vector_kb_config]
            ELSE EmptyDict
        region_cleaned == CleanRegion(a.region)
    IN  IF vectors /\ request.embedding_model_arn = <<>> THEN
            Pure(Raise(ValueError(T("embedding_model_arn is required for S3_VECTORS storage type"))))
        ELSE IF vectors /\ a.multimodal_storage_s3_uri # <<>> /\ ~StartsWith(multimodal_uri, S3_URI_PREFIX) THEN
            Pure(Raise(ValueError(T("multimodal_storage_s3_uri must start with 's3://'"))))
        ELSE IF vectors /\ a.multimodal_storage_s3_uri # <<>> /\ Len(multimodal_uri) < 7 THEN
            Pure(Raise(ValueError(T("multimodal_storage_s3_uri must be a valid S3 URI"))))
        ELSE After(Did(Return(EmptyDict), <<>>, InitLog(region_cleaned)),
                   BedrockKBClient_create_knowledge_base(
                       request.name, request.description, request.role_arn,
                       storage_configuration, knowledge_base_configuration,
                       to_api_dict(parsing, chunking), ans))

create_knowledge_base(a, sts, ans) ==
    IF a.storage_type \notin StorageTypes THEN
        Pure(Raise(ValueError(<<Lit("Invalid storage_type: "), Lit(a.storage_type),
                                Lit(". Must be 'S3' or 'S3_VECTORS'")>>)))
    ELSE LET parsing == BuildParsing(a) IN
         IF parsing.kind = "raise" THEN Pure(parsing)
         ELSE LET chunking == BuildChunking(a) IN
              IF chunking.kind = "raise" THEN Pure(chunking)
              ELSE LET request == CreateKnowledgeBaseRequest(a, sts) IN
                   IF request.out.kind = "raise" THEN request
                   ELSE After(request, StorageAndCreate(a, request.out.value, parsing.value,
                                                        chunking.value, ans))

(***************************************************************************)
(* bedrock_client.py: the other gateway methods                            *)
(***************************************************************************)
Has(ans, keys) == ans.kind = "ok" /\ keys \subseteq DOMAIN ans.resp

\* paginator.paginate(): ans.pages are the pages that arrive, one call each; when
\* ans.kind = "raise" the fetch after them fails.  A page is [hasKey, items]:
\* page.get(key, []) is its items, or [] when the page lacks the item key.
PageItems(page) == IF page.hasKey THEN page.items ELSE <<>>

\* an accumulation that keeps the last page only
Concat_last_page(pages) == IF pages = <<>> THEN <<>> ELSE PageItems(pages[Len(pages)])

RECURSIVE Concat(_)
Concat(pages) == IF pages = <<>> THEN <<>> ELSE PageItems(Head(pages)) \o Concat(Tail(pages))

Paginate(svc, op, params, ans, errorText) ==
    LET fetched == [i \in 1..Len(ans.pages) |-> Call(svc, op, params)] IN
    IF ans.kind = "raise" THEN
        Did(Raise(ans.exc), fetched \o <<Call(svc, op, params)>>,
            IF ans.exc.type = "ClientError"
            THEN <<LogLine("ERROR", errorText \o T(": ") \o ans.exc.msg)>> ELSE <<>>)
    ELSE Did(Return(Concat(ans.pages)), fetched, <<>>)

BedrockKBClient_list_knowledge_bases(ans) ==
    Paginate("bedrock-agent", "list_knowledge_bases", EmptyDict, ans,
             T("Error listing knowledge bases"))

BedrockKBClient_get_knowledge_base(knowledge_base_id, ans) ==
    Gateway(Call("bedrock-agent", "get_knowledge_base", [knowledgeBaseId |-> knowledge_base_id]),
            ans, <<Lit("Error getting knowledge base "), Val(knowledge_base_id)>>,
            {"knowledgeBase"},
            IF Has(ans, {"knowledgeBase"}) THEN ans.resp.knowledgeBase ELSE EmptyDict)

BedrockKBClient_update_knowledge_base(knowledge_base_id, name, description, role_arn, ans) ==
    LET update_params ==
            [knowledgeBaseId |-> knowledge_base_id]
            @@ Opt("name", name # <<>>, name)
            @@ Opt("description", description # <<>>, description)
            @@ Opt("roleArn", role_arn # <<>>, role_arn)
    IN  Gateway(Call("bedrock-agent", "update_knowledge_base", update_params), ans,
                <<Lit("Error updating knowledge base "), Val(knowledge_base_id)>>,
                {"id", "status"},
                IF Has(ans, {"id", "status"})
                THEN [knowledge_base_id |-> ans.resp.id, status |-> ans.resp.status,
                      arn |-> IF "knowledgeBaseArn" \in DOMAIN ans.resp
                              THEN ans.resp.knowledgeBaseArn ELSE <<"<None>">>]
                ELSE EmptyDict)

BedrockKBClient_create_data_source(knowledge_base_id, name, data_source_configuration, vector_ingestion_configuration, ans) ==
    LET api_params ==
            [knowledgeBaseId |-> knowledge_base_id, name |-> name,
             dataSourceConfiguration |-> data_source_configuration]
            @@ Opt("vectorIngestionConfiguration", vector_ingestion_configuration # EmptyDict,
                   vector_ingestion_configuration)
    IN  Gateway(Call("bedrock-agent", "create_data_source", api_params), ans,
                T("Error creating data source"), {"id", "status"},
                IF Has(ans, {"id", "status"})
                THEN [data_source_id |-> ans.resp.id, status |-> ans.resp.status]
                ELSE EmptyDict)

BedrockKBClient_list_data_sources(knowledge_base_id, ans) ==
    Paginate("bedrock-agent", "list_data_sources", [knowledgeBaseId |-> knowledge_base_id], ans,
             <<Lit("Error listing data sources for KB "), Val(knowledge_base_id)>>)

BedrockKBClient_start_ingestion_job(knowledge_base_id, data_source_id, ans) ==
    Gateway(Call("bedrock-agent", "start_ingestion_job",
                 [knowledgeBaseId |-> knowledge_base_id, dataSourceId |-> data_source_id]),
            ans, T("Error starting ingestion job"), {"ingestionJobId", "status"},
            IF Has(ans, {"ingestionJobId", "status"})
            THEN [ingestion_job_id |-> ans.resp.ingestionJobId, status |-> ans.resp.status]
            ELSE EmptyDict)

\* a gateway that asks again while the job it asked about is not finished
BedrockKBClient_get_ingestion_job_until_done(knowledge_base_id, data_source_id, ingestion_job_id, ans) ==
    LET call == Call("bedrock-agent", "get_ingestion_job",
                     [knowledgeBaseId |-> knowledge_base_id, dataSourceId |-> data_source_id,
                      ingestionJobId |-> ingestion_job_id])
        asked == Gateway(call, ans, <<Lit("Error getting ingestion job "), Val(ingestion_job_id)>>,
                         {"ingestionJobId", "status"},
                         IF Has(ans, {"ingestionJobId", "status"})
                         THEN [ingestion_job_id |-> ans.resp.ingestionJobId, status |-> "COMPLETE",
                               statistics |-> EmptyDict]
                         ELSE EmptyDict)
    IN  IF Has(ans, {"ingestionJobId", "status"}) /\ ans.resp.status \in {"STARTING", "IN_PROGRESS"}
        THEN After(asked, asked)
        ELSE asked

BedrockKBClient_get_ingestion_job(knowledge_base_id, data_source_id, ingestion_job_id, ans) ==
    Gateway(Call("bedrock-agent", "get_ingestion_job",
                 [knowledgeBaseId |-> knowledge_base_id, dataSourceId |-> data_source_id,
                  ingestionJobId |-> ingestion_job_id]),
            ans, <<Lit("Error getting ingestion job "), Val(ingestion_job_id)>>,
            {"ingestionJobId", "status"},
            IF Has(ans, {"ingestionJobId", "status"})
            THEN [ingestion_job_id |-> ans.resp.ingestionJobId, status |-> ans.resp.status,
                  statistics |-> IF "statistics" \in DOMAIN ans.resp
                                 THEN ans.resp.statistics ELSE EmptyDict]
            ELSE EmptyDict)

BedrockKBClient_retrieve(knowledge_base_id, query, number_of_results, ans) ==
    Gateway(Call("bedrock-agent-runtime", "retrieve",
                 [knowledgeBaseId |-> knowledge_base_id,
                  retrievalConfiguration |->
                      [vectorSearchConfiguration |-> [numberOfResults |-> number_of_results]],
                  retrievalQuery |-> [text |-> query]]),
            ans, T("Error retrieving from knowledge base"), {},
            IF ans.kind = "ok"
            THEN [results |-> IF "retrievalResults" \in DOMAIN ans.resp
                              THEN ans.resp.retrievalResults ELSE <<>>,
                  query |-> query]
            ELSE EmptyDict)

BedrockKBClient_upload_document_to_s3(local_file_path, bucket_name, s3_key, ans) ==
    Gateway(Call("s3", "upload_file",
                 [Filename |-> local_file_path, Bucket |-> bucket_name, Key |-> s3_key]),
            ans, T("Error uploading document to S3"), {},
            [s3_uri |-> S3_URI_PREFIX \o bucket_name \o <<"/">> \o s3_key, status |-> "uploaded"])

\* each listed object becomes {key, size, last_modified}
Document(obj) == [key |-> obj.Key, size |-> obj.Size, last_modified |-> obj.LastModified]

BedrockKBClient_list_s3_documents(bucket_name, prefix, ans) ==
    LET listed == Paginate("s3", "list_objects_v2", [Bucket |-> bucket_name, Prefix |-> prefix],
                           ans, T("Error listing S3 documents"))
    IN  IF listed.out.kind = "raise" THEN listed
        ELSE Did(Return([i \in 1..Len(listed.out.value) |-> Document(listed.out.value[i])]),
                 listed.calls, listed.log)

US_EAST_1 == <<"u", "s", "-", "e", "a", "s", "t", "-", "1">>
PublicAccessBlock == [BlockPublicAcls |-> TRUE, IgnorePublicAcls |-> TRUE,
                      BlockPublicPolicy |-> TRUE, RestrictPublicBuckets |-> TRUE]

\* a gateway that creates the bucket and leaves it at that
BedrockKBClient_create_s3_bucket_unblocked(bucket_name, region, ansCreate, ansBlock) ==
    Gateway(Call("s3", "create_bucket",
                 [Bucket |-> bucket_name]
                 @@ Opt("CreateBucketConfiguration", region # US_EAST_1, [LocationConstraint |-> region])),
            ansCreate, T("Error creating S3 bucket"), {},
            [bucket_name |-> bucket_name, region |-> region,
             arn |-> S3_ARN_PREFIX \o bucket_name, status |-> "created"])

\* a gateway that deletes the bucket again when the block cannot be applied
BedrockKBClient_create_s3_bucket_with_rollback(bucket_name, region, ansCreate, ansBlock) ==
    LET created == Gateway(Call("s3", "create_bucket",
                                [Bucket |-> bucket_name]
                                @@ Opt("CreateBucketConfiguration", region # US_EAST_1,
                                       [LocationConstraint |-> region])),
                           ansCreate, T("Error creating S3 bucket"), {}, EmptyDict)
        blocked == Gateway(Call("s3", "put_public_access_block",
                                [Bucket |-> bucket_name,
                                 PublicAccessBlockConfiguration |-> PublicAccessBlock]),
                           ansBlock, T("Error creating S3 bucket"), {},
                           [bucket_name |-> bucket_name, region |-> region,
                            arn |-> S3_ARN_PREFIX \o bucket_name, status |-> "created"])
    IN  IF created.out.kind = "raise" THEN created
        ELSE IF blocked.out.kind = "raise" THEN
            Did(blocked.out,
                created.calls \o blocked.calls \o <<Call("s3", "delete_bucket", [Bucket |-> bucket_name])>>,
                created.log \o blocked.log)
        ELSE After(created, blocked)

\* two calls in one try: create_bucket, then put_public_access_block
BedrockKBClient_create_s3_bucket(bucket_name, region, ansCreate, ansBlock) ==
    LET create_bucket_params ==
            [Bucket |-> bucket_name]
            @@ Opt("CreateBucketConfiguration", region # US_EAST_1, [LocationConstraint |-> region])
        created == Gateway(Call("s3", "create_bucket", create_bucket_params), ansCreate,
                           T("Error creating S3 bucket"), {}, EmptyDict)
        blocked == Gateway(Call("s3", "put_public_access_block",
                                [Bucket |-> bucket_name,
                                 PublicAccessBlockConfiguration |-> PublicAccessBlock]),
                           ansBlock, T("Error creating S3 bucket"), {},
                           [bucket_name |-> bucket_name, region |-> region,
                            arn |-> S3_ARN_PREFIX \o bucket_name, status |-> "created"])
    IN  IF created.out.kind = "raise" THEN created ELSE After(created, blocked)

SERVICE_ROLE_PATH == <<"/", "s", "e", "r", "v", "i", "c", "e", "-", "r", "o", "l", "e", "/">>

\* get_aws_account_id is called inside the try: its ClientError is logged a second time
BedrockKBClient_create_bedrock_kb_role(role_name, region, description, max_session_duration, sts, ans) ==
    LET acct == get_aws_account_id(sts) IN
    IF acct.out.kind = "raise" THEN
        Did(acct.out, acct.calls,
            acct.log \o (IF acct.out.exc.type = "ClientError"
                         THEN <<LogLine("ERROR", T("Error creating IAM role: ") \o acct.out.exc.msg)>>
                         ELSE <<>>))
    ELSE After(acct,
               Gateway(Call("iam", "create_role",
                            [RoleName |-> role_name,
                             AssumeRolePolicyDocument |->
                                 [SourceAccount |-> acct.out.value,
                                  SourceArn |-> [region |-> region, account |-> acct.out.value]],
                             Path |-> SERVICE_ROLE_PATH, Description |-> description,
                             MaxSessionDuration |-> max_session_duration]),
                       ans, T("Error creating IAM role"), {"Arn"},
                       IF Has(ans, {"Arn"})
                       THEN [role_name |-> role_name, role_arn |-> ans.resp.Arn,
                             path |-> SERVICE_ROLE_PATH, status |-> "created"]
                       ELSE EmptyDict))

(***************************************************************************)
(* main.py: the other tool functions                                       *)
(***************************************************************************)
\* value.split(c)
RECURSIVE SplitAll(_, _)
SplitAll(s, c) ==
    LET first == SplitFirst(s, c) IN
    IF Len(first) = Len(s) THEN <<s>> ELSE <<first>> \o SplitAll(Drop(s, Len(first) + 1), c)

list_knowledge_bases(ans) ==
    LET listed == BedrockKBClient_list_knowledge_bases(ans) IN
    IF listed.out.kind = "raise" THEN listed
    ELSE Did(Return([count |-> Len(listed.out.value), knowledge_bases |-> listed.out.value]),
             listed.calls, listed.log)

get_knowledge_base(knowledge_base_id, ans) ==
    LET id == validate_required_string(knowledge_base_id, "knowledge_base_id") IN
    IF id.kind = "raise" THEN Pure(id)
    ELSE BedrockKBClient_get_knowledge_base(id.value, ans)

\* "x.strip() if x else None": None and "" are both <<>>
\* a tool that passes the three optional parameters on as they were given
update_knowledge_base_as_given(a, ans) ==
    LET id == validate_required_string(a.knowledge_base_id, "knowledge_base_id") IN
    IF id.kind = "raise" THEN Pure(id)
    ELSE BedrockKBClient_update_knowledge_base(id.value, a.name, a.description, a.role_arn, ans)

update_knowledge_base(a, ans) ==
    LET id == validate_required_string(a.knowledge_base_id, "knowledge_base_id") IN
    IF id.kind = "raise" THEN Pure(id)
    ELSE BedrockKBClient_update_knowledge_base(id.value, Strip(a.name), Strip(a.description),
                                               Strip(a.role_arn), ans)

SourceTypes == {"S3"}

CreateDataSourceRequest(a) ==
    LET bucket == normalize_s3_arn_or_uri(a.bucket_arn)
        errors == LengthErrors("name", a.name, 1, MaxNameLen)
                  \o ValidatorErrors("bucket_arn", bucket, a.bucket_arn)
    IN  IF errors # <<>> THEN Raise(ValidationError("CreateDataSourceRequest", errors))
        ELSE Return([knowledge_base_id |-> a.knowledge_base_id, name |-> a.name,
                     source_type |-> a.source_type, bucket_arn |-> bucket.value,
                     inclusion_prefixes |-> a.inclusion_prefixes])

InclusionPrefixes(inclusion_prefixes) ==
    IF inclusion_prefixes = <<>> THEN <<>>
    ELSE LET parts == SplitAll(inclusion_prefixes, ",") IN
         SelectSeq([i \in 1..Len(parts) |-> Strip(parts[i])], LAMBDA p : p # <<>>)

create_data_source(a, ans) ==
    IF a.source_type \notin SourceTypes THEN
        Pure(Raise(ValueError(<<Lit("Invalid source_type: "), Lit(a.source_type), Lit(". Must be 'S3'")>>)))
    ELSE LET parsing == BuildParsing(a) IN
         IF parsing.kind = "raise" THEN Pure(parsing)
         ELSE LET chunking == BuildChunking(a)
                  request == CreateDataSourceRequest(a) IN
              IF chunking.kind = "raise" THEN Pure(chunking)
              ELSE IF request.kind = "raise" THEN Pure(request)
              ELSE LET prefixes == InclusionPrefixes(request.value.inclusion_prefixes)
                       data_source_configuration ==
                           [type |-> request.value.source_type,
                            s3Configuration |->
                                [bucketArn |-> request.value.bucket_arn]
                                @@ Opt("inclusionPrefixes", prefixes # <<>>, prefixes)]
                   IN  BedrockKBClient_create_data_source(
                           request.value.knowledge_base_id, request.value.name,
                           data_source_configuration,
                           to_api_dict(parsing.value, chunking.value), ans)

list_data_sources(knowledge_base_id, ans) ==
    LET id == validate_required_string(knowledge_base_id, "knowledge_base_id") IN
    IF id.kind = "raise" THEN Pure(id)
    ELSE LET listed == BedrockKBClient_list_data_sources(id.value, ans) IN
         IF listed.out.kind = "raise" THEN listed
         ELSE Did(Return([count |-> Len(listed.out.value), data_sources |-> listed.out.value]),
                  listed.calls, listed.log)

start_ingestion_job(a, ans) ==
    LET kb == validate_required_string(a.knowledge_base_id, "knowledge_base_id")
        ds == validate_required_string(a.data_source_id, "data_source_id")
    IN  IF kb.kind = "raise" THEN Pure(kb)
        ELSE IF ds.kind = "raise" THEN Pure(ds)
        ELSE BedrockKBClient_start_ingestion_job(kb.value, ds.value, ans)

get_ingestion_job(a, ans) ==
    LET kb == validate_required_string(a.knowledge_base_id, "knowledge_base_id")
        ds == validate_required_string(a.data_source_id, "data_source_id")
        job == validate_required_string(a.ingestion_job_id, "ingestion_job_id")
    IN  IF kb.kind = "raise" THEN Pure(kb)
        ELSE IF ds.kind = "raise" THEN Pure(ds)
        ELSE IF job.kind = "raise" THEN Pure(job)
        ELSE BedrockKBClient_get_ingestion_job(kb.value, ds.value, job.value, ans)

MinResults == 1
MaxResults == 100

\* retrieve without the check of number_of_results
retrieve_any_number_of_results(a, ans) ==
    LET kb == validate_required_string(a.knowledge_base_id, "knowledge_base_id")
        query == validate_required_string(a.query, "query")
    IN  IF kb.kind = "raise" THEN Pure(kb)
        ELSE IF query.kind = "raise" THEN Pure(query)
        ELSE BedrockKBClient_retrieve(kb.value, query.value, a.number_of_results, ans)

retrieve(a, ans) ==
    LET kb == validate_required_string(a.knowledge_base_id, "knowledge_base_id")
        query == validate_required_string(a.query, "query")
    IN  IF kb.kind = "raise" THEN Pure(kb)
        ELSE IF query.kind = "raise" THEN Pure(query)
        ELSE IF a.number_of_results < MinResults \/ a.number_of_results > MaxResults THEN
            Pure(Raise(ValueError(T("number_of_results must be between 1 and 100"))))
        ELSE BedrockKBClient_retrieve(kb.value, query.value, a.number_of_results, ans)

\* exists: os.path.exists(local_file_path)
upload_document_to_s3(a, exists, ans) ==
    LET path == validate_required_string(a.local_file_path, "local_file_path")
        bucket == validate_required_string(a.bucket_name, "bucket_name")
        key == validate_required_string(a.s3_key, "s3_key")
    IN  IF path.kind = "raise" THEN Pure(path)
        ELSE IF bucket.kind = "raise" THEN Pure(bucket)
        ELSE IF key.kind = "raise" THEN Pure(key)
        ELSE IF ~exists THEN Pure(Raise(ValueError(<<Lit("File not found: "), Val(path.value)>>)))
        ELSE BedrockKBClient_upload_document_to_s3(path.value, bucket.value, key.value, ans)

list_s3_documents(a, ans) ==
    LET bucket == validate_required_string(a.bucket_name, "bucket_name")
        prefix_cleaned == Strip(a.prefix)
    IN  IF bucket.kind = "raise" THEN Pure(bucket)
        ELSE LET listed == BedrockKBClient_list_s3_documents(bucket.value, prefix_cleaned, ans) IN
             IF listed.out.kind = "raise" THEN listed
             ELSE Did(Return([count |-> Len(listed.out.value), bucket |-> bucket.value,
                              prefix |-> prefix_cleaned, documents |-> listed.out.value]),
                      listed.calls, listed.log)

\* re.match(r'^[a-z0-9][a-z0-9.-]*[a-z0-9]$', bucket_name) on a stripped name
MatchesBucketPattern(n) ==
    /\ Len(n) >= 2
    /\ n[1] \in Lower \cup Digit
    /\ n[Len(n)] \in Lower \cup Digit
    /\ \A i \in 2..(Len(n) - 1) : n[i] \in Lower \cup Digit \cup {".", "-"}

\* re.match(r'^(\d{1,3}\.){3}\d{1,3}$', bucket_name)
MatchesIpPattern(n) ==
    LET groups == SplitAll(n, ".") IN
    /\ Len(groups) = 4
    /\ \A i \in 1..4 : /\ Len(groups[i]) \in 1..3
                       /\ \A j \in 1..Len(groups[i]) : groups[i][j] \in Digit

\* the checks without the one for the IP address format
BucketNameError_ip_format_allowed(bucket_name) ==
    IF Len(bucket_name) < MinBucketLen \/ Len(bucket_name) > MaxBucketLen THEN
        T("bucket_name must be between 3 and 63 characters")
    ELSE IF ~MatchesBucketPattern(bucket_name) THEN
        T("bucket_name must start and end with a lowercase letter or number, and contain only lowercase letters, numbers, hyphens, and periods")
    ELSE IF Contains(bucket_name, <<".", ".">>) \/ Contains(bucket_name, <<"-", "-">>) THEN
        T("bucket_name cannot contain consecutive periods or hyphens")
    ELSE <<>>

BucketNameError(bucket_name) ==
    IF Len(bucket_name) < MinBucketLen \/ Len(bucket_name) > MaxBucketLen THEN
        T("bucket_name must be between 3 and 63 characters")
    ELSE IF ~MatchesBucketPattern(bucket_name) THEN
        T("bucket_name must start and end with a lowercase letter or number, and contain only lowercase letters, numbers, hyphens, and periods")
    ELSE IF Contains(bucket_name, <<".", ".">>) \/ Contains(bucket_name, <<"-", "-">>) THEN
        T("bucket_name cannot contain consecutive periods or hyphens")
    ELSE IF MatchesIpPattern(bucket_name) THEN
        T("bucket_name cannot be in IP address format")
    ELSE <<>>

create_s3_bucket(a, ansCreate, ansBlock) ==
    LET bucket == validate_required_string(a.bucket_name, "bucket_name") IN
    IF bucket.kind = "raise" THEN Pure(bucket)
    ELSE IF BucketNameError(bucket.value) # <<>> THEN
        Pure(Raise(ValueError(BucketNameError(bucket.value))))
    ELSE BedrockKBClient_create_s3_bucket(bucket.value, CleanRegion(a.region), ansCreate, ansBlock)

MaxRoleNameLen == 64
MinSessionDuration == 3600
MaxSessionDuration == 43200
Upper == {"A", "B", "C", "D", "E", "F", "G", "H", "I", "J", "K", "L", "M",
          "N", "O", "P", "Q", "R", "S", "T", "U", "V", "W", "X", "Y", "Z"}
\* \w of a str pattern: ASCII letters, digits, "_" and every other Unicode word
\* character, of which "U+00E9" stands for one
WordChar == Lower \cup Upper \cup Digit \cup {"_", "U+00E9"}

\* re.match(r'^[\w+=,.@-]+$', role_name) on a stripped name
MatchesRoleNamePattern(n) ==
    Len(n) >= 1 /\ \A i \in 1..Len(n) : n[i] \in WordChar \cup {"+", "=", ",", ".", "@", "-"}

create_bedrock_kb_role(a, sts, ans) ==
    LET role == validate_required_string(a.role_name, "role_name") IN
    IF role.kind = "raise" THEN Pure(role)
    ELSE IF Len(role.value) < 1 \/ Len(role.value) > MaxRoleNameLen THEN
        Pure(Raise(ValueError(T("role_name must be between 1 and 64 characters"))))
    ELSE IF ~MatchesRoleNamePattern(role.value) THEN
        Pure(Raise(ValueError(T("role_name must contain only alphanumeric characters, hyphens, underscores, periods, plus signs, equals signs, commas, and @ symbols"))))
    ELSE IF a.max_session_duration < MinSessionDuration \/ a.max_session_duration > MaxSessionDuration THEN
        Pure(Raise(ValueError(T("max_session_duration must be between 3600 and 43200 seconds"))))
    ELSE BedrockKBClient_create_bedrock_kb_role(role.value, CleanRegion(a.region), a.description,
                                                a.max_session_duration, sts, ans)

(***************************************************************************)
(* The server: it takes one tool invocation at a time (main.py, mcp.run()) *)
(* and keeps nothing between invocations.                                  *)
(***************************************************************************)
VARIABLES
    pc,          \* "idle": waiting for a request; "done": an invocation has returned
    tool,        \* the tool invoked
    args,        \* its arguments
    answers,     \* what the collaborators answer during the invocation
    outcome,     \* what the tool function did before handle_errors: return or raise
    calls,       \* the external calls of the invocation, in order
    result,      \* the dict returned to the caller
    propagated,  \* an exception went past handle_errors
    log,         \* the lines logged during the invocation
    stage,       \* the normalizer specification: "off", "input", "once", "twice"
    parts,       \* the pieces the storage reference was put together from
    ref,         \* the storage reference
    once,        \* normalize_s3_arn_or_uri(ref)
    twice,       \* normalize_s3_arn_or_uri of the value of once
    use_structured  \* setup_logging: the formatter of the process is the structured one

toolVars == <<pc, tool, args, answers, outcome, calls, result, propagated, log>>
normVars == <<stage, parts, ref, once, twice>>
vars == <<pc, tool, args, answers, outcome, calls, result, propagated, log, stage, parts, ref, once, twice,
          use_structured>>

NoOutcome == Return(NoValue)
NoParts == [lpad |-> <<>>, prefix |-> <<>>, bucket |-> <<>>, path |-> <<>>, rpad |-> <<>>]

Idle ==
    /\ pc = "idle" /\ tool = "" /\ args = EmptyDict /\ answers = EmptyDict
    /\ outcome = NoOutcome
    /\ calls = <<>> /\ result = NoValue /\ propagated = FALSE /\ log = <<>>

NormOff ==
    /\ stage = "off" /\ parts = NoParts /\ ref = <<>> /\ once = NoOutcome /\ twice = NoOutcome

\* main.py calls setup_logging() once, when the module is loaded: the environment
\* chooses the formatter and nothing changes it afterwards
setup_logging == use_structured \in BOOLEAN

Init == Idle /\ NormOff /\ setup_logging

\* the wrapped tool function has run: handle_errors turns what it did into the reply
Finish(name, a, env, did) ==
    LET h == handle_errors(name, did) IN
    /\ pc' = "done"
    /\ tool' = name
    /\ args' = a
    /\ answers' = env
    /\ outcome' = did.out
    /\ calls' = did.calls
    /\ result' = h.ret
    /\ propagated' = h.propagated
    /\ log' = h.log
    /\ UNCHANGED <<normVars, use_structured>>

\* the reply is sent; the invocation's state is dropped
Respond ==
    /\ pc = "done"
    /\ pc' = "idle" /\ tool' = "" /\ args' = EmptyDict /\ answers' = EmptyDict
    /\ outcome' = NoOutcome
    /\ calls' = <<>> /\ result' = NoValue /\ propagated' = FALSE /\ log' = <<>>
    /\ UNCHANGED <<normVars, use_structured>>

(***************************************************************************)
(* The collaborators' answers.                                             *)
(***************************************************************************)
\* pages a list operation may return before it ends
MaxPages == 2

NoExc == OtherException(<<>>)
Ok(resp) == [kind |-> "ok", resp |-> resp, exc |-> NoExc]
Fails(e) == [kind |-> "raise", resp |-> EmptyDict, exc |-> e]

RATE_EXCEEDED == T("Rate exceeded")
TOKEN_EXPIRED == T("The security token included in the request is expired")

\* every shape of error response: a code of the table, one outside it or none; a
\* message or none; a request id, an empty one or none
ClientErrors(op) ==
    {ClientError(op, c, m # <<>>, m, rid) :
        c \in {"ThrottlingException", "ExpiredTokenException", Absent},
        m \in {RATE_EXCEEDED, TOKEN_EXPIRED, <<>>},
        rid \in {Absent, "", "req-1"}}

THROTTLED(op) == ClientError(op, "ThrottlingException", TRUE, RATE_EXCEEDED, "req-1")
EXPIRED(op) == ClientError(op, "ExpiredTokenException", TRUE, TOKEN_EXPIRED, Absent)

SomeClientErrors(op) == {THROTTLED(op), EXPIRED(op)}

\* failures that are neither ClientError nor ValueError (botocore's BotoCoreError family)
NO_CREDENTIALS == OtherException(T("Unable to locate credentials"))
NO_ENDPOINT == OtherException(T("Could not connect to the endpoint URL"))

InternalErrors == {NO_CREDENTIALS, NO_ENDPOINT}

Answers(op, resps) ==
    {Ok(r) : r \in resps} \cup {Fails(e) : e \in SomeClientErrors(op) \cup InternalErrors}

AllAnswers(op, resps) ==
    {Ok(r) : r \in resps} \cup {Fails(e) : e \in ClientErrors(op) \cup InternalErrors}

ACCOUNT == <<"1", "2", "3", "4", "5", "6", "7", "8", "9", "0", "1", "2">>

StsOk == [kind |-> "ok", Account |-> ACCOUNT, exc |-> NoExc]
StsNoAccount == [kind |-> "ok", Account |-> <<>>, exc |-> NoExc]
StsFails(e) == [kind |-> "raise", Account |-> <<>>, exc |-> e]

StsAnswers ==
    {StsOk, StsNoAccount}
    \cup {StsFails(e) : e \in SomeClientErrors("GetCallerIdentity") \cup InternalErrors}

Page(items) == [hasKey |-> TRUE, items |-> items]
PagesOf(choices) ==
    UNION {[1..n -> choices \cup {[hasKey |-> FALSE, items |-> <<>>]}] : n \in 0..MaxPages}

PageAnswers(op, choices) ==
    {[kind |-> "ok", pages |-> ps, exc |-> NoExc] : ps \in PagesOf(choices)}
    \cup {[kind |-> "raise", pages |-> ps, exc |-> e] :
             ps \in PagesOf(choices), e \in SomeClientErrors(op) \cup InternalErrors}

(***************************************************************************)
(* The callers' inputs.                                                    *)
(***************************************************************************)
Padded(v) == {Rep(" ", l) \o v \o Rep(" ", r) : l \in 0..MaxPad, r \in 0..MaxPad}

KB_ID == <<"K", "B", "1">>
DS_ID == <<"D", "S", "1">>
JOB_ID == <<"J", "1">>
Ids(id) == Padded(id) \cup Padded(<<>>)

MY_ROLE == <<"M", "y", "R", "o", "l", "e">>
MY_BUCKET == <<"m", "y", "-", "b", "u", "c", "k", "e", "t">>
MODEL_X == <<"m", "o", "d", "e", "l", "-", "x">>
EU_WEST_1 == <<"e", "u", "-", "w", "e", "s", "t", "-", "1">>
\* an account other than the caller's
OTHER_ACCOUNT == Rep("9", AccountIdLen)
ROLE_SHORT == ROLE_PREFIX \o MY_ROLE
ROLE_ARN_SHORT == IAM_SHORT_PREFIX \o MY_ROLE
ROLE_FULL == IAM_ARN_PREFIX \o OTHER_ACCOUNT \o COLON_ROLE_PREFIX \o MY_ROLE
BUCKET_URI == S3_URI_PREFIX \o MY_BUCKET
BUCKET_ARN == S3_ARN_PREFIX \o MY_BUCKET

\* places (fields of the input, answers of the collaborators) in which an invocation
\* of create_knowledge_base may differ from a base scenario
MaxDeviations == 2

NoChunkingInput ==
    [chunking_strategy |-> "", chunking_max_tokens |-> 0, chunking_overlap_percentage |-> 0,
     chunking_overlap_tokens |-> 0, chunking_buffer_size |-> 0,
     chunking_breakpoint_threshold |-> 0]

\* the end-to-end scenario of the specification, a plain S3 knowledge base, and one
\* with a parsing and a chunking configuration
KbVectorInput ==
    [name |-> KB_ID, description |-> <<"d">>, role_arn |-> ROLE_SHORT,
     storage_type |-> "S3_VECTORS", bucket_arn |-> BUCKET_URI, embedding_model_arn |-> MODEL_X,
     region |-> US_EAST_1, parsing_strategy |-> "", parsing_model_arn |-> <<>>,
     parsing_modality |-> <<>>, parsing_prompt_text |-> <<>>,
     multimodal_storage_s3_uri |-> <<>>] @@ NoChunkingInput

KbPlainInput ==
    [name |-> KB_ID, description |-> <<"d">>, role_arn |-> ROLE_FULL,
     storage_type |-> "S3", bucket_arn |-> BUCKET_ARN, embedding_model_arn |-> <<>>,
     region |-> US_EAST_1, parsing_strategy |-> "", parsing_model_arn |-> <<>>,
     parsing_modality |-> <<>>, parsing_prompt_text |-> <<>>,
     multimodal_storage_s3_uri |-> <<>>] @@ NoChunkingInput

KbConfiguredInput ==
    [name |-> KB_ID, description |-> <<"d">>, role_arn |-> ROLE_FULL,
     storage_type |-> "S3_VECTORS", bucket_arn |-> BUCKET_ARN, embedding_model_arn |-> MODEL_X,
     region |-> US_EAST_1, parsing_strategy |-> "BEDROCK_FOUNDATION_MODEL",
     parsing_model_arn |-> MODEL_X, parsing_modality |-> <<>>, parsing_prompt_text |-> <<>>,
     multimodal_storage_s3_uri |-> <<>>,
     chunking_strategy |-> "FIXED_SIZE", chunking_max_tokens |-> 300,
     chunking_overlap_percentage |-> 20, chunking_overlap_tokens |-> 0,
     chunking_buffer_size |-> 0, chunking_breakpoint_threshold |-> 0]

KbAlternatives ==
    [name |-> <<<<>>, <<" ">>, Rep("n", MaxNameLen), Rep("n", MaxNameLen + 1)>>,
     description |-> <<<<>>, <<" ">>>>,
     role_arn |-> <<ROLE_SHORT, ROLE_ARN_SHORT, ROLE_FULL, MY_ROLE,
                    IAM_ARN_PREFIX \o <<"1">> \o COLON_ROLE_PREFIX \o MY_ROLE>>,
     storage_type |-> <<"S3", "S3_VECTORS", "EFS">>,
     bucket_arn |-> <<BUCKET_ARN, BUCKET_URI, MY_BUCKET>>,
     embedding_model_arn |-> <<<<>>, MODEL_X>>,
     region |-> <<EU_WEST_1>>,
     parsing_strategy |-> <<"BEDROCK_FOUNDATION_MODEL", "BEDROCK_DATA_AUTOMATION", "OCR">>,
     parsing_model_arn |-> <<MODEL_X>>,
     parsing_modality |-> <<<<"M", "U", "L", "T", "I", "M", "O", "D", "A", "L">>>>,
     parsing_prompt_text |-> <<<<"x">>>>,
     multimodal_storage_s3_uri |-> <<S3_URI_PREFIX \o <<"m", "m", "/">>, MY_BUCKET>>,
     chunking_strategy |-> <<"FIXED_SIZE", "HIERARCHICAL", "SEMANTIC", "NONE", "PAGE">>,
     chunking_max_tokens |-> <<0, 300>>,
     chunking_overlap_percentage |-> <<0, MaxOverlapPercentage, MaxOverlapPercentage + 1,
                                       MinOverlapPercentage - 1>>,
     chunking_overlap_tokens |-> <<60>>,
     chunking_buffer_size |-> <<1>>,
     chunking_breakpoint_threshold |-> <<95>>,
     sts |-> <<StsNoAccount, StsFails(THROTTLED("GetCallerIdentity")),
               StsFails(EXPIRED("GetCallerIdentity")), StsFails(NO_CREDENTIALS),
               StsFails(NO_ENDPOINT)>>,
     create |-> <<Ok([knowledgeBaseId |-> KB_ID, knowledgeBaseStatus |-> "CREATING"]),
                  Ok([knowledgeBaseStatus |-> "CREATING"]),
                  Fails(THROTTLED("CreateKnowledgeBase")), Fails(EXPIRED("CreateKnowledgeBase")),
                  Fails(NO_CREDENTIALS), Fails(NO_ENDPOINT)>>]

\* in a base scenario the collaborators answer
KbAnswered ==
    [sts |-> StsOk,
     create |-> Ok([knowledgeBaseId |-> KB_ID, knowledgeBaseStatus |-> "CREATING",
                    knowledgeBaseArn |-> <<"k", "b">>])]

MaxAlternatives == 6

Deviations(alternatives) ==
    UNION {{idx \in [D -> 1..MaxAlternatives] : \A f \in D : idx[f] <= Len(alternatives[f])} :
              D \in {D \in SUBSET DOMAIN alternatives : Cardinality(D) <= MaxDeviations}}

Deviate(base, alternatives, idx) ==
    [f \in DOMAIN base |-> IF f \in DOMAIN idx THEN alternatives[f][idx[f]] ELSE base[f]]

(***************************************************************************)
(* One action per tool: the tool function under handle_errors.             *)
(***************************************************************************)
CreateKnowledgeBase ==
    /\ pc = "idle"
    /\ \E base \in {KbVectorInput, KbPlainInput, KbConfiguredInput},
          idx \in Deviations(KbAlternatives) :
          LET scenario == Deviate(base @@ KbAnswered, KbAlternatives, idx)
              a == [f \in DOMAIN base |-> scenario[f]]
          IN  Finish("create_knowledge_base", a,
                     [sts |-> scenario.sts, create |-> scenario.create],
                     create_knowledge_base(a, scenario.sts, scenario.create))

ListKnowledgeBases ==
    /\ pc = "idle"
    /\ \E ans \in PageAnswers("ListKnowledgeBases", {Page(<<>>), Page(<<"kb1">>), Page(<<"kb2", "kb3">>)}) :
          Finish("list_knowledge_bases", EmptyDict, [list |-> ans], list_knowledge_bases(ans))

GetKnowledgeBase ==
    /\ pc = "idle"
    /\ \E id \in Ids(KB_ID),
          ans \in AllAnswers("GetKnowledgeBase",
                             {[knowledgeBase |-> [knowledgeBaseId |-> KB_ID, name |-> KB_ID,
                                                  status |-> "ACTIVE"]],
                              EmptyDict}) :
          Finish("get_knowledge_base", [knowledge_base_id |-> id], [get |-> ans], get_knowledge_base(id, ans))

UpdateKnowledgeBase ==
    /\ pc = "idle"
    /\ \E id \in Ids(KB_ID), name \in {<<>>, <<" ">>, KB_ID, Rep("n", MaxNameLen + 1)},
          description \in {<<>>, <<"d">>, <<" ", "d", " ">>},
          role_arn \in {<<>>, ROLE_SHORT, ROLE_FULL, MY_ROLE},
          ans \in Answers("UpdateKnowledgeBase",
                          {[id |-> KB_ID, status |-> "UPDATING", knowledgeBaseArn |-> <<"k", "b">>],
                           [id |-> KB_ID, status |-> "UPDATING"], [id |-> KB_ID]}) :
          LET a == [knowledge_base_id |-> id, name |-> name, description |-> description,
                    role_arn |-> role_arn] IN
          Finish("update_knowledge_base", a, [update |-> ans], update_knowledge_base(a, ans))

ChunkingInputs ==
    {NoChunkingInput,
     [NoChunkingInput EXCEPT !.chunking_strategy = "PAGE"],
     [NoChunkingInput EXCEPT !.chunking_strategy = "NONE"],
     [NoChunkingInput EXCEPT !.chunking_strategy = "FIXED_SIZE"],
     [NoChunkingInput EXCEPT !.chunking_strategy = "FIXED_SIZE", !.chunking_max_tokens = 300,
                             !.chunking_overlap_percentage = MaxOverlapPercentage + 1],
     [NoChunkingInput EXCEPT !.chunking_strategy = "FIXED_SIZE", !.chunking_max_tokens = 300,
                             !.chunking_overlap_percentage = MaxOverlapPercentage],
     [NoChunkingInput EXCEPT !.chunking_strategy = "FIXED_SIZE", !.chunking_max_tokens = 300,
                             !.chunking_overlap_percentage = MinOverlapPercentage - 1],
     [NoChunkingInput EXCEPT !.chunking_strategy = "HIERARCHICAL", !.chunking_overlap_tokens = 60],
     [NoChunkingInput EXCEPT !.chunking_strategy = "SEMANTIC", !.chunking_max_tokens = 300,
                             !.chunking_buffer_size = 1]}

CreateDataSource ==
    /\ pc = "idle"
    /\ \E id \in {<<>>, KB_ID}, name \in {<<>>, <<" ">>, DS_ID, Rep("n", MaxNameLen + 1)},
          source_type \in {"S3", "WEB"},
          bucket_arn \in {<<>>, BUCKET_ARN, BUCKET_URI, BUCKET_URI \o <<"/", "p">>, MY_BUCKET,
                          S3_URI_PREFIX \o <<"a", "b">>},
          inclusion_prefixes \in {<<>>, <<"d", "/", ",", " ", "i", "/", " ", ",">>, <<",", " ">>},
          parsing_strategy \in {"", "BEDROCK_FOUNDATION_MODEL", "BEDROCK_DATA_AUTOMATION", "OCR"},
          parsing_model_arn \in {<<>>, MODEL_X},
          chunking \in ChunkingInputs,
          ans \in Answers("CreateDataSource",
                          {[id |-> DS_ID, status |-> "AVAILABLE"], [id |-> DS_ID]}) :
          LET a == [knowledge_base_id |-> id, name |-> name, source_type |-> source_type,
                    bucket_arn |-> bucket_arn, inclusion_prefixes |-> inclusion_prefixes,
                    parsing_strategy |-> parsing_strategy, parsing_model_arn |-> parsing_model_arn,
                    parsing_modality |-> <<>>, parsing_prompt_text |-> <<>>] @@ chunking IN
          Finish("create_data_source", a, [create |-> ans], create_data_source(a, ans))

ListDataSources ==
    /\ pc = "idle"
    /\ \E id \in Ids(KB_ID),
          ans \in PageAnswers("ListDataSources", {Page(<<>>), Page(<<"ds1">>), Page(<<"ds2", "ds3">>)}) :
          Finish("list_data_sources", [knowledge_base_id |-> id], [list |-> ans], list_data_sources(id, ans))

JobStatuses == {"STARTING", "IN_PROGRESS", "COMPLETE", "FAILED"}

StartIngestionJob ==
    /\ pc = "idle"
    /\ \E kb \in Ids(KB_ID), ds \in Ids(DS_ID),
          ans \in Answers("StartIngestionJob",
                          {[ingestionJobId |-> JOB_ID, status |-> st] : st \in {"STARTING", "IN_PROGRESS"}}
                          \cup {[ingestionJobId |-> JOB_ID]}) :
          LET a == [knowledge_base_id |-> kb, data_source_id |-> ds] IN
          Finish("start_ingestion_job", a, [start |-> ans], start_ingestion_job(a, ans))

GetIngestionJob ==
    /\ pc = "idle"
    /\ \E kb \in Ids(KB_ID), ds \in Ids(DS_ID), job \in Ids(JOB_ID),
          ans \in Answers("GetIngestionJob",
                          {[ingestionJobId |-> JOB_ID, status |-> st] : st \in JobStatuses}
                          \cup {[ingestionJobId |-> JOB_ID, status |-> "COMPLETE",
                                 statistics |-> [numberOfDocumentsScanned |-> 1]]}) :
          LET a == [knowledge_base_id |-> kb, data_source_id |-> ds, ingestion_job_id |-> job] IN
          Finish("get_ingestion_job", a, [get |-> ans], get_ingestion_job(a, ans))

Retrieve ==
    /\ pc = "idle"
    /\ \E kb \in Ids(KB_ID), query \in Ids(<<"q">>),
          n \in {MinResults - 1, MinResults, 5, MaxResults, MaxResults + 1},
          ans \in Answers("Retrieve",
                          {[retrievalResults |-> <<"r1", "r2">>], EmptyDict}) :
          LET a == [knowledge_base_id |-> kb, query |-> query, number_of_results |-> n] IN
          Finish("retrieve", a, [retrieve |-> ans], retrieve(a, ans))

UploadDocumentToS3 ==
    /\ pc = "idle"
    /\ \E path \in Ids(<<"/", "f">>), bucket \in Ids(MY_BUCKET), key \in Ids(<<"k">>),
          exists \in BOOLEAN, ans \in Answers("PutObject", {EmptyDict}) :
          LET a == [local_file_path |-> path, bucket_name |-> bucket, s3_key |-> key] IN
          Finish("upload_document_to_s3", a, [exists |-> exists, put |-> ans], upload_document_to_s3(a, exists, ans))

S3Object(key) == [Key |-> key, Size |-> 1, LastModified |-> "2024-01-01T00:00:00"]

ListS3Documents ==
    /\ pc = "idle"
    /\ \E bucket \in Ids(<<"b">>), prefix \in Padded(<<"d", "o", "c", "s", "/">>) \cup {<<>>},
          ans \in PageAnswers("ListObjectsV2",
                              {Page(<<>>), Page(<<S3Object("k1")>>),
                               Page(<<S3Object("k2"), S3Object("k3")>>)}) :
          LET a == [bucket_name |-> bucket, prefix |-> prefix] IN
          Finish("list_s3_documents", a, [list |-> ans], list_s3_documents(a, ans))

IP_NAME == <<"1", "9", "2", ".", "1", "6", "8", ".", "1", ".", "1">>

BucketNames ==
    Ids(MY_BUCKET)
    \cup {Rep("b", n) : n \in {MinBucketLen - 1, MinBucketLen, MaxBucketLen, MaxBucketLen + 1}}
    \cup {IP_NAME, <<"1", ".", "2", ".", "3">>, <<"1", "2", "3", "4", ".", "1", ".", "1", ".", "1">>,
          <<"m", "y", "-", "-", "b">>, <<"m", "y", ".", ".", "b">>, <<"m", "y", ".", "-", "b">>,
          <<"M", "y", "b">>, <<"-", "m", "y">>, <<"m", "y", ".">>, <<"m", "y", "_", "b">>,
          <<"m", "y", " ", "b">>}

CreateS3Bucket ==
    /\ pc = "idle"
    /\ \E name \in BucketNames, region \in {<<>>, US_EAST_1, EU_WEST_1, <<" ">> \o EU_WEST_1},
          ansCreate \in Answers("CreateBucket", {EmptyDict}),
          ansBlock \in Answers("PutPublicAccessBlock", {EmptyDict}) :
          LET a == [bucket_name |-> name, region |-> region] IN
          Finish("create_s3_bucket", a, [create |-> ansCreate, block |-> ansBlock], create_s3_bucket(a, ansCreate, ansBlock))

RoleNames ==
    Ids(MY_ROLE)
    \cup {Rep("r", n) : n \in {1, MaxRoleNameLen, MaxRoleNameLen + 1}}
    \cup {<<"a", "+", "=", ",", ".", "@", "-", "_", "Z", "9">>, <<"m", "y", " ", "r">>,
          <<"r", "/", "x">>, <<"r", "U+00E9">>, <<"r", "!">>}

CreateBedrockKbRole ==
    /\ pc = "idle"
    /\ \E name \in RoleNames, region \in {US_EAST_1, EU_WEST_1},
          duration \in {MinSessionDuration - 1, MinSessionDuration, 7200, MaxSessionDuration,
                        MaxSessionDuration + 1},
          sts \in StsAnswers,
          ans \in Answers("CreateRole", {[Arn |-> ROLE_FULL], EmptyDict}) :
          LET a == [role_name |-> name, region |-> region, description |-> <<"d">>,
                    max_session_duration |-> duration] IN
          Finish("create_bedrock_kb_role", a, [sts |-> sts, create |-> ans], create_bedrock_kb_role(a, sts, ans))

Next ==
    \/ CreateKnowledgeBase
    \/ ListKnowledgeBases
    \/ GetKnowledgeBase
    \/ UpdateKnowledgeBase
    \/ CreateDataSource
    \/ ListDataSources
    \/ StartIngestionJob
    \/ GetIngestionJob
    \/ Retrieve
    \/ UploadDocumentToS3
    \/ ListS3Documents
    \/ CreateS3Bucket
    \/ CreateBedrockKbRole
    \/ Respond

Spec == Init /\ [][Next]_vars

(***************************************************************************)
(* The storage-reference normalizer alone: normalize_s3_arn_or_uri applied *)
(* to a reference, and again to what it returned.                          *)
(***************************************************************************)
\* whitespace around a reference
Pads == {Rep(" ", n) : n \in 0..MaxPad} \cup {<<"\t">>, <<"\n">>}

Prefixes == {<<>>, S3_URI_PREFIX, S3_ARN_PREFIX, <<"S", "3", ":", "/", "/">>}

Buckets ==
    {Rep("b", n) : n \in {0, MinBucketLen - 1, MinBucketLen, MaxBucketLen, MaxBucketLen + 1}}
    \cup {MY_BUCKET, IP_NAME, <<"b", "b", " ">>, <<" ", "b", "b">>, <<"b", " ", "b">>,
          <<"M", "y", "_", "B">>}

RECURSIVE PathOf(_)
PathOf(n) == IF n = 0 THEN <<>> ELSE <<"/", "p">> \o PathOf(n - 1)

Paths == {PathOf(n) : n \in 0..MaxPathSegs} \cup {<<"/">>}

InitNorm ==
    /\ Idle
    /\ stage = "input"
    /\ parts \in [lpad : Pads, prefix : Prefixes, bucket : Buckets, path : Paths, rpad : Pads]
    /\ ref = parts.lpad \o parts.prefix \o parts.bucket \o parts.path \o parts.rpad
    /\ once = NoOutcome
    /\ twice = NoOutcome
    /\ setup_logging

NormalizeOnce ==
    /\ stage = "input"
    /\ stage' = "once"
    /\ once' = normalize_s3_arn_or_uri(ref)
    /\ UNCHANGED <<parts, ref, twice>>
    /\ UNCHANGED <<toolVars, use_structured>>

\* only an accepted reference has a value to normalize again
NormalizeTwice ==
    /\ stage = "once"
    /\ once.kind = "return"
    /\ stage' = "twice"
    /\ twice' = normalize_s3_arn_or_uri(once.value)
    /\ UNCHANGED <<parts, ref, once>>
    /\ UNCHANGED <<toolVars, use_structured>>

NextNorm ==
    \/ NormalizeOnce
    \/ NormalizeTwice

SpecNorm == InitNorm /\ [][NextNorm]_vars

(***************************************************************************)
(* normalize_iam_role_arn applied to a role reference, the identity        *)
(* service answering the lookup it may make (specification SpecRole).      *)
(***************************************************************************)
USER_PREFIX == <<"u", "s", "e", "r", "/">>

\* what precedes the role name: nothing, the two shorthand prefixes, the full
\* prefix with an account id of 12 digits, of 11, of 13, with a letter in it,
\* another resource type, another case
RolePrefixes ==
    {<<>>, ROLE_PREFIX, IAM_SHORT_PREFIX, <<"R", "o", "l", "e", "/">>,
     IAM_ARN_PREFIX \o OTHER_ACCOUNT \o <<":">> \o USER_PREFIX}
    \cup {IAM_ARN_PREFIX \o acct \o COLON_ROLE_PREFIX :
             acct \in {Rep("9", n) : n \in {AccountIdLen - 1, AccountIdLen, AccountIdLen + 1}}
                      \cup {<<"a">> \o Rep("9", AccountIdLen - 1)}}

\* role names: none, plain, with a path, holding the text 'role/', being it
RoleRefNames ==
    {<<>>, MY_ROLE, <<"p", "/">> \o MY_ROLE, <<"a", "/">> \o ROLE_PREFIX \o <<"b">>, ROLE_PREFIX,
     <<"m", "y", " ", "r">>, Tail(SERVICE_ROLE_PATH) \o MY_ROLE}

InitRole ==
    /\ pc = "idle" /\ tool = "" /\ args = EmptyDict
    /\ answers \in [sts : StsAnswers]
    /\ outcome = NoOutcome
    /\ calls = <<>> /\ result = NoValue /\ propagated = FALSE /\ log = <<>>
    /\ stage = "input"
    /\ parts \in [lpad : Pads, prefix : RolePrefixes, bucket : RoleRefNames, path : {<<>>}, rpad : Pads]
    /\ ref = parts.lpad \o parts.prefix \o parts.bucket \o parts.rpad
    /\ once = NoOutcome
    /\ twice = NoOutcome
    /\ setup_logging

NormalizeRole ==
    /\ stage = "input"
    /\ stage' = "role"
    /\ LET did == normalize_iam_role_arn(ref, answers.sts) IN
       /\ once' = did.out
       /\ calls' = did.calls
       /\ log' = did.log
    /\ UNCHANGED <<parts, ref, twice>>
    /\ UNCHANGED <<pc, tool, args, answers, outcome, result, propagated, use_structured>>

NextRole == NormalizeRole

SpecRole == InitRole /\ [][NextRole]_vars

(***************************************************************************)
(* Properties of the reply (specification Spec).                           *)
(***************************************************************************)
Replied == pc = "done"
Failed == Replied /\ outcome.kind = "raise"
FailedWith(types) == Failed /\ outcome.exc.type \in types

\* C1: every invocation of a tool ends with a returned dict and no exception goes
\* past the wrapper: what the tool function returned, which has no 'error' key, when
\* it returned, and a record with both 'error' and 'code' when it raised anything.
C1_EveryInvocationReturnsAnEnvelope ==
    Replied =>
        /\ ~propagated
        /\ result # NoValue
        /\ IF outcome.kind = "return"
           THEN result = outcome.value /\ "error" \notin DOMAIN result
           ELSE {"error", "code"} \subseteq DOMAIN result

C1_InternalFailureReplied ==
    /\ FailedWith({"Exception"})
    /\ tool = "list_knowledge_bases"
    /\ ~propagated
    /\ result.code = "InternalError"

\* C2: a ClientError whose response carries code c and message m is answered with
\* code = c, details = m and error = the table's text for c when the table has c,
\* else m; request_id is in the reply exactly when the response carries a non-empty
\* request id, and then it is that id.
C2_ServiceFailureIsTranslatedByTheTable ==
    (FailedWith({"ClientError"}) /\ outcome.exc.response.Code # Absent
        /\ outcome.exc.response.HasMessage) =>
        LET c == outcome.exc.response.Code
            m == outcome.exc.response.Message
            rid == outcome.exc.response.RequestId
        IN  /\ result.code = c
            /\ result.details = m
            /\ result.error = (IF c \in ErrorCodesWithMessage THEN error_messages(c) ELSE m)
            /\ c = "ThrottlingException" =>
                   result.error = T("JP: too many requests. wait a while and retry")
            /\ c = "ExpiredTokenException" => result.error = m
            /\ ("request_id" \in DOMAIN result) <=> (rid \notin {Absent, ""})
            /\ ("request_id" \in DOMAIN result) => result.request_id = rid

C2_ThrottlingTranslated ==
    /\ FailedWith({"ClientError"})
    /\ outcome.exc.response.Code = "ThrottlingException"
    /\ outcome.exc.response.Message = RATE_EXCEEDED
    /\ outcome.exc.response.RequestId = Absent
    /\ result.details = RATE_EXCEEDED
    /\ result.error # RATE_EXCEEDED
    /\ "request_id" \notin DOMAIN result

\* the message a validator or a field constraint raised, as pydantic keeps it in
\* an entry of a ValidationError
Raised(e) == IF Head(e.msg) = Lit("Value error, ") THEN Tail(e.msg) ELSE e.msg

RaisedMessages(exc) ==
    IF exc.errors = <<>> THEN {exc.msg}
    ELSE {Raised(exc.errors[i]) : i \in 1..Len(exc.errors)}

RequestModelTools == {"create_knowledge_base", "create_data_source"}

\* C3 as stated: a validation failure is answered with code 'ValidationError' and
\* an error that is the raised message itself, nothing added around it.
C3_RaisedMessageVerbatim ==
    FailedWith({"ValueError", "ValidationError"}) =>
        /\ result.code = "ValidationError"
        /\ result.error \in RaisedMessages(outcome.exc)

\* C3, amended: a validation failure is answered with code 'ValidationError' and
\* an error that is the text of the exception reaching the wrapper. That is the
\* raised message itself for a ValueError raised by the tool function,
\* validate_required_string or the identity lookup; for a failure inside a request
\* model (a field constraint, a validator, a normalizer a validator calls) it is
\* pydantic's report, which starts with the number of errors and holds each raised
\* message inside a longer text.
C3_ValidationFailureReturnsExceptionText ==
    FailedWith({"ValueError", "ValidationError"}) =>
        LET errors == outcome.exc.errors IN
        /\ DOMAIN result = {"error", "code"}
        /\ result.code = "ValidationError"
        /\ result.error = outcome.exc.msg
        /\ outcome.exc.type = "ValueError" => errors = <<>>
        /\ outcome.exc.type = "ValidationError" =>
               /\ tool \in RequestModelTools
               /\ errors # <<>>
               /\ Head(result.error) = Lit(ToString(Len(errors)))
               /\ \A i \in 1..Len(errors) :
                      /\ Contains(result.error, errors[i].msg)
                      /\ Len(result.error) > Len(errors[i].msg)

C3_NormalizerMessageWrapped ==
    /\ FailedWith({"ValidationError"})
    /\ tool = "create_data_source"
    /\ Len(outcome.exc.errors) = 1
    /\ outcome.exc.errors[1].loc = "bucket_arn"
    /\ normalize_s3_arn_or_uri(args.bucket_arn).kind = "raise"
    /\ Raised(outcome.exc.errors[1]) = normalize_s3_arn_or_uri(args.bucket_arn).exc.msg
    /\ result.error # normalize_s3_arn_or_uri(args.bucket_arn).exc.msg

\* C4 as stated: a failure that is neither a ClientError nor a validation failure
\* is answered with code 'InternalError' and a message that does not hold the
\* exception's text: the same invocation failing with another text gets the same
\* reply.
C4_InternalDetailNotReturned ==
    FailedWith({"Exception"}) =>
        /\ result.code = "InternalError"
        /\ ~Contains(result.error, outcome.exc.msg)
        /\ \A other \in InternalErrors :
               handle_errors(tool, Did(Raise(other), calls, <<>>)).ret = result

C4_InternalDetailReturned ==
    /\ FailedWith({"Exception"})
    /\ tool = "list_knowledge_bases"
    /\ outcome.exc.msg = T("Unable to locate credentials")
    /\ result.error = T(INTERNAL_PREFIX) \o T("Unable to locate credentials")

\* the input breaks one of the rules the specification lists
NameRuleBroken == Len(args.name) \notin 1..MaxNameLen
ModelRuleBroken == args.parsing_strategy = "BEDROCK_FOUNDATION_MODEL" /\ args.parsing_model_arn = <<>>

ViolatesARule ==
    \/ /\ tool = "create_knowledge_base"
       /\ \/ NameRuleBroken
          \/ ModelRuleBroken
          \/ args.storage_type = "S3_VECTORS" /\ args.embedding_model_arn = <<>>
    \/ /\ tool = "create_data_source"
       /\ (NameRuleBroken \/ ModelRuleBroken)
    \/ /\ tool = "retrieve"
       /\ args.number_of_results \notin MinResults..MaxResults
    \/ /\ tool = "create_s3_bucket"
       /\ \/ Len(Strip(args.bucket_name)) \notin MinBucketLen..MaxBucketLen
          \/ Strip(args.bucket_name) = IP_NAME
          \/ Contains(args.bucket_name, <<"-", "-">>)
    \/ /\ tool = "create_bedrock_kb_role"
       /\ \/ Len(Strip(args.role_name)) \notin 1..MaxRoleNameLen
          \/ args.max_session_duration \notin MinSessionDuration..MaxSessionDuration

\* C5 as stated: an invocation whose input breaks a validation rule is rejected
\* with no external call made during it, the identity lookup included.
C5_RejectedBeforeAnyExternalCall ==
    (Replied /\ ViolatesARule) =>
        /\ outcome.kind = "raise"
        /\ calls = <<>>

C5_LookupBeforeRejection ==
    /\ Replied
    /\ tool = "create_knowledge_base"
    /\ args = [KbPlainInput EXCEPT !.name = <<>>, !.role_arn = ROLE_SHORT]
    /\ answers.sts.kind = "ok"
    /\ answers.sts.Account = ACCOUNT
    /\ calls = <<StsCall>>
    /\ result.code = "ValidationError"

LookupAnswered == answers.sts.kind = "ok" /\ answers.sts.Account = ACCOUNT

\* C6 as stated: create_knowledge_base(name='KB1', description='d',
\* role_arn='role/MyRole', storage_type='S3_VECTORS', bucket_arn='s3://my-bucket',
\* embedding_model_arn='model-x') calls the identity lookup first and, the lookup
\* answered, makes exactly one creation call, with roleArn
\* 'arn:aws:iam::<account>:role/MyRole' and a storage configuration of type
\* S3_VECTORS holding s3VectorsConfiguration.
C6_ScenarioEmitsOneCreationCall ==
    (Replied /\ tool = "create_knowledge_base" /\ args = KbVectorInput) =>
        /\ calls # <<>>
        /\ Head(calls) = StsCall
        /\ LookupAnswered =>
               /\ Len(calls) = 2
               /\ calls[2].op = "create_knowledge_base"
               /\ calls[2].params.roleArn = IAM_ARN_PREFIX \o ACCOUNT \o COLON_ROLE_PREFIX \o MY_ROLE
               /\ calls[2].params.storageConfiguration.type = "S3_VECTORS"
               /\ "s3VectorsConfiguration" \in DOMAIN calls[2].params.storageConfiguration

C6_ScenarioRejected ==
    /\ Replied
    /\ tool = "create_knowledge_base"
    /\ args = KbVectorInput
    /\ LookupAnswered
    /\ calls = <<StsCall>>
    /\ result.code = "ValidationError"
    /\ Contains(result.error, T("Invalid S3 bucket ARN format"))

\* the fields of CreateKnowledgeBaseRequest and CreateDataSourceRequest, in the
\* order of their declaration; "" is the model as a whole
FieldRank(loc) ==
    CASE loc = "name" -> 1
      [] loc = "description" -> 2
      [] loc = "role_arn" -> 3
      [] loc = "bucket_arn" -> 4
      [] OTHER -> 5

LookupFailed == answers.sts.kind = "raise" \/ answers.sts.Account = <<>>

\* C8 as stated: when create_knowledge_base completes a role reference and the
\* identity lookup fails (an error of the service, any other failure, or an answer
\* without an account id), the reply's code is not 'ValidationError'.
C8_LookupFailureIsNotAValidationError ==
    (Replied /\ tool = "create_knowledge_base" /\ calls # <<>> /\ Head(calls) = StsCall
        /\ LookupFailed) =>
        /\ "code" \in DOMAIN result
        /\ result.code # "ValidationError"

C8_MissingAccountReportedAsValidation ==
    /\ Replied
    /\ tool = "create_knowledge_base"
    /\ args = [KbPlainInput EXCEPT !.role_arn = ROLE_SHORT]
    /\ answers.sts.kind = "ok"
    /\ answers.sts.Account = <<>>
    /\ calls = <<StsCall>>
    /\ result.code = "ValidationError"
    /\ Contains(result.error, T("Failed to retrieve AWS account ID from STS response"))

CreationCalls == {i \in 1..Len(calls) : calls[i].op = "create_knowledge_base"}

\* C13 as stated: create_knowledge_base with storage type S3_VECTORS and an empty
\* embedding_model_arn is answered with code 'ValidationError' and makes no
\* creation call; a creation call with storage type S3_VECTORS carries a
\* knowledgeBaseConfiguration of type VECTOR with a non-empty embeddingModelArn.
C13_VectorStorageNeedsEmbeddingModel ==
    (Replied /\ tool = "create_knowledge_base") =>
        /\ (args.storage_type = "S3_VECTORS" /\ args.embedding_model_arn = <<>>) =>
               /\ "code" \in DOMAIN result
               /\ result.code = "ValidationError"
               /\ CreationCalls = {}
        /\ \A i \in CreationCalls :
               calls[i].params.storageConfiguration.type = "S3_VECTORS" =>
                   /\ "knowledgeBaseConfiguration" \in DOMAIN calls[i].params
                   /\ calls[i].params.knowledgeBaseConfiguration.type = "VECTOR"
                   /\ calls[i].params.knowledgeBaseConfiguration.vectorKnowledgeBaseConfiguration.embeddingModelArn # <<>>

C13_LookupFailureReportedInstead ==
    /\ Replied
    /\ tool = "create_knowledge_base"
    /\ args = [KbVectorInput EXCEPT !.embedding_model_arn = <<>>]
    /\ answers.sts = StsFails(THROTTLED("GetCallerIdentity"))
    /\ calls = <<StsCall>>
    /\ result.code = "ThrottlingException"

\* the creation calls of the two tools that build a parsing configuration, and
\* the parsing configurations sent with them
ConfiguredCalls ==
    {i \in 1..Len(calls) : /\ calls[i].op \in {"create_knowledge_base", "create_data_source"}
                           /\ "vectorIngestionConfiguration" \in DOMAIN calls[i].params}
ParsingSent ==
    {calls[i].params.vectorIngestionConfiguration.parsingConfiguration :
        i \in {j \in ConfiguredCalls :
                  "parsingConfiguration" \in DOMAIN calls[j].params.vectorIngestionConfiguration}}

\* C14: create_knowledge_base and create_data_source with parsing strategy
\* BEDROCK_FOUNDATION_MODEL and an empty parsing_model_arn are answered with code
\* 'ValidationError' and make no call (when the storage or source type is a valid
\* one, the error is ParsingConfiguration's); a parsing configuration sent with
\* strategy BEDROCK_FOUNDATION_MODEL carries a non-empty modelArn.
C14_FoundationModelParsingNeedsModel ==
    (Replied /\ tool \in RequestModelTools) =>
        /\ ModelRuleBroken =>
               /\ DOMAIN result = {"error", "code"}
               /\ result.code = "ValidationError"
               /\ calls = <<>>
               /\ (tool = "create_knowledge_base" /\ args.storage_type \in StorageTypes) =>
                      /\ outcome.exc.type = "ValidationError"
                      /\ Contains(result.error, T("parsing_model_arn is required for BEDROCK_FOUNDATION_MODEL parsing strategy"))
               /\ (tool = "create_data_source" /\ args.source_type \in SourceTypes) =>
                      /\ outcome.exc.type = "ValidationError"
                      /\ Contains(result.error, T("parsing_model_arn is required for BEDROCK_FOUNDATION_MODEL parsing strategy"))
        /\ \A p \in ParsingSent :
               p.parsingStrategy = "BEDROCK_FOUNDATION_MODEL" =>
                   /\ "bedrockFoundationModelConfiguration" \in DOMAIN p
                   /\ p.bedrockFoundationModelConfiguration.modelArn # <<>>
                   /\ p.bedrockFoundationModelConfiguration.modelArn = args.parsing_model_arn

C14_DataSourceWithoutParsingModelRejected ==
    /\ Replied
    /\ tool = "create_data_source"
    /\ args.parsing_strategy = "BEDROCK_FOUNDATION_MODEL"
    /\ args.parsing_model_arn = <<>>
    /\ args.knowledge_base_id = KB_ID
    /\ args.bucket_arn = BUCKET_URI
    /\ result.code = "ValidationError"
    /\ Contains(result.error, T("parsing_model_arn is required for BEDROCK_FOUNDATION_MODEL parsing strategy"))
    /\ calls = <<>>

\* the string parameters a tool requires
RequiredStrings ==
    CASE tool = "create_knowledge_base" -> {"name", "description"}
      [] tool = "create_data_source" -> {"knowledge_base_id", "name"}
      [] tool \in {"get_knowledge_base", "update_knowledge_base", "list_data_sources"} ->
             {"knowledge_base_id"}
      [] tool = "start_ingestion_job" -> {"knowledge_base_id", "data_source_id"}
      [] tool = "get_ingestion_job" -> {"knowledge_base_id", "data_source_id", "ingestion_job_id"}
      [] tool = "retrieve" -> {"knowledge_base_id", "query"}
      [] tool = "upload_document_to_s3" -> {"local_file_path", "bucket_name", "s3_key"}
      [] tool \in {"list_s3_documents", "create_s3_bucket"} -> {"bucket_name"}
      [] tool = "create_bedrock_kb_role" -> {"role_name"}
      [] OTHER -> {}

BlankRequired == {f \in RequiredStrings : Strip(args[f]) = <<>>}

\* C15 as stated: an invocation with a required string parameter that is empty or
\* whitespace only is answered with code 'ValidationError', and no external call
\* carries the parameter (the only call it may make is the identity lookup, which
\* has no parameters).
C15_BlankRequiredStringRejected ==
    (Replied /\ BlankRequired # {}) =>
        /\ "code" \in DOMAIN result
        /\ result.code = "ValidationError"
        /\ \A i \in 1..Len(calls) : calls[i] = StsCall

C15_DataSourceForNoKnowledgeBase ==
    /\ Replied
    /\ tool = "create_data_source"
    /\ args.knowledge_base_id = <<>>
    /\ args.name = DS_ID
    /\ outcome.kind = "return"
    /\ Len(calls) = 1
    /\ calls[1].op = "create_data_source"
    /\ calls[1].params.knowledgeBaseId = <<>>
    /\ "error" \notin DOMAIN result

NameTools == {"create_knowledge_base", "create_data_source", "update_knowledge_base"}
NamesSent ==
    {calls[i].params.name :
        i \in {j \in 1..Len(calls) : calls[j].op \in NameTools /\ "name" \in DOMAIN calls[j].params}}

\* C16 as stated: create_knowledge_base, create_data_source and
\* update_knowledge_base reject a name of length 0 and a name of length 101 or
\* more, and no create or update call carries a name longer than 100 characters.
C16_NameLengthBounded ==
    (Replied /\ tool \in NameTools) =>
        /\ NameRuleBroken => (outcome.kind = "raise" /\ "error" \in DOMAIN result)
        /\ \A n \in NamesSent : Len(n) \in 1..MaxNameLen

C16_LongNameSentByUpdate ==
    /\ Replied
    /\ tool = "update_knowledge_base"
    /\ args.knowledge_base_id = KB_ID
    /\ args.name = Rep("n", MaxNameLen + 1)
    /\ outcome.kind = "return"
    /\ Len(calls) = 1
    /\ calls[1].op = "update_knowledge_base"
    /\ calls[1].params.name = Rep("n", MaxNameLen + 1)

RetrieveInputValid ==
    /\ Strip(args.knowledge_base_id) # <<>>
    /\ Strip(args.query) # <<>>
    /\ args.number_of_results \in MinResults..MaxResults

\* C17: retrieve makes the retrieval call exactly when knowledge_base_id and
\* query are non-empty after trimming and number_of_results is in 1..100; any
\* other input, number_of_results 0 and 101 among them, is answered with code
\* 'ValidationError'; the call made is the only one and carries the trimmed id,
\* the trimmed query and the given number_of_results.
C17_RetrieveCallsExactlyWhenValid ==
    (Replied /\ tool = "retrieve") =>
        /\ RetrieveInputValid <=> calls # <<>>
        /\ ~RetrieveInputValid =>
               /\ DOMAIN result = {"error", "code"}
               /\ result.code = "ValidationError"
        /\ calls # <<>> =>
               /\ Len(calls) = 1
               /\ calls[1].op = "retrieve"
               /\ calls[1].params.knowledgeBaseId = Strip(args.knowledge_base_id)
               /\ calls[1].params.retrievalQuery.text = Strip(args.query)
               /\ calls[1].params.retrievalConfiguration.vectorSearchConfiguration.numberOfResults
                      = args.number_of_results
               /\ calls[1].params.retrievalConfiguration.vectorSearchConfiguration.numberOfResults
                      \in MinResults..MaxResults

C17_MostResultsRetrieved ==
    /\ Replied
    /\ tool = "retrieve"
    /\ args.knowledge_base_id = <<" ">> \o KB_ID
    /\ args.number_of_results = MaxResults
    /\ Len(calls) = 1
    /\ calls[1].params.knowledgeBaseId = KB_ID
    /\ calls[1].params.retrievalConfiguration.vectorSearchConfiguration.numberOfResults = MaxResults
    /\ outcome.kind = "return"

OverlapOutOfRange ==
    args.chunking_overlap_percentage \notin MinOverlapPercentage..MaxOverlapPercentage

\* C18 as stated, for the chunking strategy that uses the overlap percentage:
\* create_knowledge_base and create_data_source with chunking strategy FIXED_SIZE
\* and an overlap percentage below 0 or above 100 are answered with code
\* 'ValidationError' and make no external call.
C18_OverlapOutsideRangeRejected ==
    (Replied /\ tool \in RequestModelTools /\ args.chunking_strategy = "FIXED_SIZE"
        /\ OverlapOutOfRange) =>
        /\ "code" \in DOMAIN result
        /\ result.code = "ValidationError"
        /\ calls = <<>>

C18_NegativeOverlapAccepted ==
    /\ Replied
    /\ tool = "create_data_source"
    /\ args.chunking_strategy = "FIXED_SIZE"
    /\ args.chunking_overlap_percentage = MinOverlapPercentage - 1
    /\ outcome.kind = "return"
    /\ Len(calls) = 1
    /\ calls[1].op = "create_data_source"
    /\ calls[1].params.vectorIngestionConfiguration.chunkingConfiguration.fixedSizeChunkingConfiguration.overlapPercentage = 0

\* the rules of the specification for the name of a new bucket, on the trimmed name
BucketNameGiven == Strip(args.bucket_name)
Periods(n) == {i \in 1..Len(n) : n[i] = "."}
DottedQuad(n) ==
    /\ \A i \in 1..Len(n) : n[i] \in Digit \cup {"."}
    /\ Cardinality(Periods(n)) = 3
    /\ \A i \in 0..(Len(n) - 3) :
           i + 4 <= Len(n) => \E j \in (i + 1)..(i + 4) : n[j] = "."
    /\ n[1] # "." /\ n[Len(n)] # "."
    /\ \A i \in 1..(Len(n) - 1) : ~(n[i] = "." /\ n[i + 1] = ".")

BucketNameAllowed ==
    LET n == BucketNameGiven IN
    /\ Len(n) \in MinBucketLen..MaxBucketLen
    /\ \A i \in 1..Len(n) : n[i] \in Lower \cup Digit \cup {"-", "."}
    /\ n[1] \in Lower \cup Digit
    /\ n[Len(n)] \in Lower \cup Digit
    /\ \A i \in 1..(Len(n) - 1) : ~(n[i] = n[i + 1] /\ n[i] \in {"-", "."})
    /\ ~DottedQuad(n)

\* C19: create_s3_bucket makes the bucket-creation call exactly when the trimmed
\* name has 3 to 63 characters, holds only lowercase letters, digits, hyphens and
\* periods, starts and ends with a letter or digit, has no two hyphens and no two
\* periods in a row and is not four groups of one to three digits joined by
\* periods; the call carries the trimmed name. Any other name is answered with
\* code 'ValidationError' and no call.
C19_BucketCreatedExactlyWhenNameAllowed ==
    (Replied /\ tool = "create_s3_bucket") =>
        /\ BucketNameAllowed <=> calls # <<>>
        /\ calls # <<>> =>
               /\ calls[1].op = "create_bucket"
               /\ calls[1].params.Bucket = BucketNameGiven
               /\ \A i \in 1..Len(calls) : calls[i].params.Bucket = BucketNameGiven
        /\ ~BucketNameAllowed =>
               /\ DOMAIN result = {"error", "code"}
               /\ result.code = "ValidationError"

C19_AddressNameRejected ==
    /\ Replied
    /\ tool = "create_s3_bucket"
    /\ args.bucket_name = IP_NAME
    /\ result.code = "ValidationError"
    /\ result.error = T("bucket_name cannot be in IP address format")
    /\ calls = <<>>

\* the rules of the specification for a new role, on the trimmed name
RoleNameGiven == Strip(args.role_name)
RoleNameAllowed ==
    /\ Len(RoleNameGiven) \in 1..MaxRoleNameLen
    /\ \A i \in 1..Len(RoleNameGiven) :
           RoleNameGiven[i] \in Lower \cup Upper \cup Digit \cup {"+", "=", ",", ".", "@", "-", "_"}
DurationAllowed == args.max_session_duration \in MinSessionDuration..MaxSessionDuration

\* C20 as stated: create_bedrock_kb_role makes external calls (the identity
\* lookup, the role creation) only when the trimmed role name has 1 to 64
\* characters, all of them letters, digits or one of '+=,.@-_', and
\* max_session_duration is in 3600..43200; any other input is answered with code
\* 'ValidationError' and no call; with an allowed name, 3600 and 43200 are accepted.
C20_RoleCreatedOnlyWhenInputAllowed ==
    (Replied /\ tool = "create_bedrock_kb_role") =>
        /\ calls # <<>> => (RoleNameAllowed /\ DurationAllowed)
        /\ ~(RoleNameAllowed /\ DurationAllowed) =>
               /\ "code" \in DOMAIN result
               /\ result.code = "ValidationError"
        /\ (RoleNameAllowed /\ args.max_session_duration \in {MinSessionDuration, MaxSessionDuration}) =>
               /\ calls # <<>>
               /\ Head(calls) = StsCall

C20_AccentedNameSent ==
    /\ Replied
    /\ tool = "create_bedrock_kb_role"
    /\ args.role_name = <<"r", "U+00E9">>
    /\ LookupAnswered
    /\ Len(calls) = 2
    /\ calls[1] = StsCall
    /\ calls[2].op = "create_role"
    /\ calls[2].params.RoleName = <<"r", "U+00E9">>
    /\ outcome.kind = "return"

\* the configurations sent with the creation calls
ChunkingSent ==
    {calls[i].params.vectorIngestionConfiguration.chunkingConfiguration :
        i \in {j \in ConfiguredCalls :
                  "chunkingConfiguration" \in DOMAIN calls[j].params.vectorIngestionConfiguration}}
KbCallsSent == {calls[i].params : i \in CreationCalls}

\* the sub-object of a chunking strategy and of a parsing strategy, if it has one
ChunkingSubObject(strategy) ==
    CASE strategy = "FIXED_SIZE" -> {"fixedSizeChunkingConfiguration"}
      [] strategy = "HIERARCHICAL" -> {"hierarchicalChunkingConfiguration"}
      [] strategy = "SEMANTIC" -> {"semanticChunkingConfiguration"}
      [] OTHER -> {}
ChunkingSubFields(strategy) ==
    CASE strategy = "FIXED_SIZE" -> {"maxTokens", "overlapPercentage"}
      [] strategy = "HIERARCHICAL" -> {"levelConfigurations", "overlapTokens"}
      [] strategy = "SEMANTIC" -> {"maxTokens", "bufferSize", "breakpointPercentileThreshold"}
      [] OTHER -> {}
ParsingSubObject(strategy) ==
    IF strategy = "BEDROCK_FOUNDATION_MODEL" THEN "bedrockFoundationModelConfiguration"
    ELSE "bedrockDataAutomationConfiguration"
ParsingSubFields(strategy) ==
    IF strategy = "BEDROCK_FOUNDATION_MODEL" THEN {"modelArn", "parsingModality", "parsingPrompt"}
    ELSE {"parsingModality"}

\* C21: a configuration sent by create_knowledge_base or create_data_source holds
\* the sub-object of the selected variant only, with fields of that variant only,
\* whatever the other parameters are: a chunking configuration names the given
\* strategy and has at most the sub-object of that strategy; a parsing
\* configuration has exactly the sub-object of its strategy; storage type S3
\* sends s3Configuration and neither s3VectorsConfiguration nor a
\* knowledgeBaseConfiguration (so no embedding model); S3_VECTORS sends
\* s3VectorsConfiguration and no s3Configuration.
C21_OnlySelectedVariantEmitted ==
    (Replied /\ tool \in RequestModelTools) =>
        /\ \A c \in ChunkingSent :
               /\ c.chunkingStrategy = args.chunking_strategy
               /\ DOMAIN c \ {"chunkingStrategy"} \subseteq ChunkingSubObject(c.chunkingStrategy)
               /\ \A sub \in DOMAIN c \ {"chunkingStrategy"} :
                      DOMAIN c[sub] \subseteq ChunkingSubFields(c.chunkingStrategy)
        /\ \A p \in ParsingSent :
               /\ p.parsingStrategy = args.parsing_strategy
               /\ DOMAIN p = {"parsingStrategy", ParsingSubObject(p.parsingStrategy)}
               /\ DOMAIN p[ParsingSubObject(p.parsingStrategy)] \subseteq ParsingSubFields(p.parsingStrategy)
        /\ \A k \in KbCallsSent :
               /\ k.storageConfiguration.type = args.storage_type
               /\ k.storageConfiguration.type = "S3" =>
                      /\ DOMAIN k.storageConfiguration = {"type", "s3Configuration"}
                      /\ DOMAIN k.storageConfiguration.s3Configuration = {"bucketArn"}
                      /\ "knowledgeBaseConfiguration" \notin DOMAIN k
               /\ k.storageConfiguration.type = "S3_VECTORS" =>
                      /\ DOMAIN k.storageConfiguration = {"type", "s3VectorsConfiguration"}
                      /\ DOMAIN k.storageConfiguration.s3VectorsConfiguration = {"vectorBucketArn"}
                      /\ "knowledgeBaseConfiguration" \in DOMAIN k

C21_HierarchicalWithFixedSizeValues ==
    /\ Replied
    /\ tool = "create_knowledge_base"
    /\ args.chunking_strategy = "HIERARCHICAL"
    /\ args.chunking_max_tokens = 300
    /\ args.chunking_overlap_percentage = 20
    /\ ChunkingSent = {[chunkingStrategy |-> "HIERARCHICAL",
                        hierarchicalChunkingConfiguration |-> EmptyDict]}

\* the optional fields of a sent configuration, each with the parameter the
\* caller supplies it by
OptionalFieldsSent ==
    UNION {UNION {{<<sub, f>> : f \in DOMAIN c[sub]} : sub \in DOMAIN c \ {"chunkingStrategy"}} :
              c \in ChunkingSent}

SuppliedFor(field) ==
    CASE field = "overlapPercentage" -> args.chunking_overlap_percentage # 0
      [] field = "maxTokens" -> args.chunking_max_tokens # 0
      [] field = "overlapTokens" -> args.chunking_overlap_tokens # 0
      [] field = "bufferSize" -> args.chunking_buffer_size # 0
      [] field = "breakpointPercentileThreshold" -> args.chunking_breakpoint_threshold # 0
      [] OTHER -> FALSE

\* C22 as stated: a field of a sent chunking configuration is there only when the
\* caller supplied its parameter; a parameter left at its default puts no key in
\* the configuration, with no value substituted for it.
C22_UnsuppliedFieldOmitted ==
    (Replied /\ tool \in RequestModelTools) =>
        \A sf \in OptionalFieldsSent : SuppliedFor(sf[2])

C22_OverlapDefaultSubstituted ==
    /\ Replied
    /\ tool = "create_knowledge_base"
    /\ args.chunking_strategy = "FIXED_SIZE"
    /\ args.chunking_max_tokens = 300
    /\ args.chunking_overlap_percentage = 0
    /\ ChunkingSent = {[chunkingStrategy |-> "FIXED_SIZE",
                        fixedSizeChunkingConfiguration |->
                            [maxTokens |-> 300, overlapPercentage |-> 0]]}

BucketCreated ==
    /\ Replied
    /\ tool = "create_s3_bucket"
    /\ "status" \in DOMAIN result

\* C23: when create_s3_bucket returns the result with status 'created', the
\* invocation made the bucket-creation call and after it a
\* put_public_access_block call for the same bucket with the four flags TRUE,
\* and the service accepted both; the result names that bucket.
C23_CreatedBucketIsBlocked ==
    BucketCreated =>
        /\ result.status = "created"
        /\ result.bucket_name = BucketNameGiven
        /\ Len(calls) = 2
        /\ calls[1].op = "create_bucket"
        /\ calls[1].params.Bucket = BucketNameGiven
        /\ calls[2].op = "put_public_access_block"
        /\ calls[2].params =
               [Bucket |-> BucketNameGiven,
                PublicAccessBlockConfiguration |->
                    [BlockPublicAcls |-> TRUE, IgnorePublicAcls |-> TRUE,
                     BlockPublicPolicy |-> TRUE, RestrictPublicBuckets |-> TRUE]]
        /\ answers.create.kind = "ok"
        /\ answers.block.kind = "ok"

C23_BucketCreatedAndBlocked ==
    /\ BucketCreated
    /\ args.bucket_name = <<" ">> \o MY_BUCKET
    /\ args.region = EU_WEST_1
    /\ result.status = "created"
    /\ Len(calls) = 2
    /\ calls[2].op = "put_public_access_block"
    /\ calls[2].params.Bucket = MY_BUCKET

BlockFailed ==
    /\ Replied
    /\ tool = "create_s3_bucket"
    /\ calls # <<>>
    /\ answers.create.kind = "ok"
    /\ answers.block.kind = "raise"

\* C24: when the bucket-creation call succeeds and the put_public_access_block
\* call fails, create_s3_bucket returns an error envelope made from that failure
\* and makes no further call: the two calls are all it made, so nothing deletes
\* or changes the bucket the service has created.
C24_NoRollbackAfterBlockFailure ==
    BlockFailed =>
        /\ outcome = Raise(answers.block.exc)
        /\ {"error", "code"} \subseteq DOMAIN result
        /\ "status" \notin DOMAIN result
        /\ Len(calls) = 2
        /\ calls[1].op = "create_bucket"
        /\ calls[2].op = "put_public_access_block"

C24_BucketLeftAfterBlockFailure ==
    /\ BlockFailed
    /\ args.bucket_name = MY_BUCKET
    /\ answers.block.exc = THROTTLED("PutPublicAccessBlock")
    /\ result.code = "ThrottlingException"
    /\ Len(calls) = 2
    /\ calls[1].params.Bucket = MY_BUCKET

ListTools == {"list_knowledge_bases", "list_data_sources", "list_s3_documents"}

\* the items of the pages the collaborator returned, page after page, each
\* page's items in their order; a page without the item key has none
RECURSIVE ItemsUpTo(_)
ItemsUpTo(n) ==
    IF n = 0 THEN <<>>
    ELSE ItemsUpTo(n - 1)
         \o (IF answers.list.pages[n].hasKey THEN answers.list.pages[n].items ELSE <<>>)
AllItems == ItemsUpTo(Len(answers.list.pages))

Listed == Replied /\ tool \in ListTools /\ outcome.kind = "return"

\* C25: a list tool that returns gives one sequence holding the items of all
\* pages in page order and in-page order (for list_s3_documents one document per
\* object, with the object's key, size and modification time) and 'count' equal
\* to its length; list_s3_documents also returns the trimmed bucket and prefix.
\* It fetched each page once.
C25_PagesConcatenatedInOrder ==
    Listed =>
        /\ result.count = Len(AllItems)
        /\ Len(calls) = Len(answers.list.pages)
        /\ tool = "list_knowledge_bases" => result.knowledge_bases = AllItems
        /\ tool = "list_data_sources" => result.data_sources = AllItems
        /\ tool = "list_s3_documents" =>
               /\ Len(result.documents) = Len(AllItems)
               /\ \A i \in 1..Len(AllItems) :
                      result.documents[i] = [key |-> AllItems[i].Key, size |-> AllItems[i].Size,
                                             last_modified |-> AllItems[i].LastModified]
               /\ result.bucket = Strip(args.bucket_name)
               /\ result.prefix = Strip(args.prefix)

C25_TwoPagesOfDocuments ==
    /\ Listed
    /\ tool = "list_s3_documents"
    /\ args = [bucket_name |-> <<"b">>, prefix |-> <<"d", "o", "c", "s", "/">>]
    /\ answers.list.pages = <<Page(<<S3Object("k1")>>), Page(<<S3Object("k2"), S3Object("k3")>>)>>
    /\ result.count = 3
    /\ [i \in 1..3 |-> result.documents[i].key] = <<"k1", "k2", "k3">>
    /\ result.bucket = <<"b">>
    /\ result.prefix = <<"d", "o", "c", "s", "/">>

IngestionOperations == {"start_ingestion_job", "get_ingestion_job"}

\* the external calls of an invocation that concern ingestion jobs
JobCalls(cs) == {i \in 1..Len(cs) : cs[i].op \in IngestionOperations}

\* the identifiers an ingestion tool requires are all given
JobIdsGiven(t, a) ==
    /\ Strip(a.knowledge_base_id) # <<>>
    /\ Strip(a.data_source_id) # <<>>
    /\ t = "get_ingestion_job" => Strip(a.ingestion_job_id) # <<>>

\* what one invocation of a tool t does about ingestion jobs: start and get
\* issue exactly one call of their own operation when the identifiers are given
\* and none otherwise, return the status of that one answer, and no other tool
\* issues a call about ingestion jobs
ObservesJob(t, a, env, cs, out, res) ==
    /\ t \in IngestionOperations =>
           /\ JobIdsGiven(t, a) =>
                  /\ Len(cs) = 1
                  /\ cs[1].svc = "bedrock-agent" /\ cs[1].op = t
                  /\ cs[1].params.knowledgeBaseId = Strip(a.knowledge_base_id)
                  /\ cs[1].params.dataSourceId = Strip(a.data_source_id)
           /\ ~JobIdsGiven(t, a) => cs = <<>>
           /\ out.kind = "return" =>
                  res.status = (IF t = "start_ingestion_job" THEN env.start ELSE env.get).resp.status
    /\ t \notin IngestionOperations => JobCalls(cs) = {}

\* C26 (as amended): over every sequence of invocations, each step that
\* completes a start_ingestion_job or get_ingestion_job invocation with its
\* identifiers given issues exactly one external call, of that operation, and
\* one with a blank identifier issues none; a returning invocation carries the
\* status of that single answer, whatever it is, and no invocation of any other
\* tool issues a call about ingestion jobs.
C26_JobsObservedNotOwned ==
    [][pc' = "done" => ObservesJob(tool', args', answers', calls', outcome', result')]_vars

\* C26 as stated: every start_ingestion_job or get_ingestion_job invocation
\* issues exactly one external call.
C26_EveryInvocationCallsOnce ==
    (Replied /\ tool \in IngestionOperations) => Len(calls) = 1

C26_UnfinishedStatusReturnedAtOnce ==
    /\ Replied
    /\ tool = "get_ingestion_job"
    /\ outcome.kind = "return"
    /\ answers.get.resp.status = "IN_PROGRESS"
    /\ result.status = "IN_PROGRESS"
    /\ Len(calls) = 1

\* a start_ingestion_job invocation with a blank data source id
C26_BlankIdStartsNothing ==
    /\ Replied
    /\ tool = "start_ingestion_job"
    /\ Strip(args.data_source_id) = <<>>
    /\ calls = <<>>

\* the catch-all branch of handle_errors logged the last line, with exc_info
CaughtUnexpected ==
    Failed /\ ~propagated /\ outcome.exc.type # "ClientError" /\ ~IsValueError(outcome.exc)

\* what the handler wrote for the lines of the invocation
Written ==
    [i \in DOMAIN log |->
        Formatted(use_structured, log[i],
                  IF CaughtUnexpected /\ i = Len(log) THEN outcome.exc.msg ELSE <<>>)]

\* a resource reference can be read in the text: ARN_PATTERN matches somewhere in a value
HoldsReference(text) ==
    \E p \in DOMAIN text : \E i \in 1..Len(text[p].val) : ARN_PATTERN_match(Drop(text[p].val, i - 1)) > 0

LinesWithReference ==
    {i \in DOMAIN log : HoldsReference(Written[i].message) \/ HoldsReference(Written[i].exception)}

\* C27: a failed invocation has logged an error line, and no line written for it
\* lets a resource reference be read, whichever formatter the process started
\* with.
C27_FailureLoggedAndRedacted ==
    (Failed /\ ~propagated) =>
        /\ log # <<>> /\ log[Len(log)].level = "ERROR"
        /\ LinesWithReference = {}

\* the failure is logged under either formatter
C27_FailureLogged ==
    (Failed /\ ~propagated) => (log # <<>> /\ log[Len(log)].level = "ERROR")

\* with the structured formatter no written message lets a reference be read
C27_StructuredMessagesRedacted ==
    (Replied /\ use_structured) => \A i \in DOMAIN log : ~HoldsReference(Written[i].message)

\* with the structured formatter no written line lets a reference be read
C27_StructuredLinesRedacted ==
    (Replied /\ use_structured) => LinesWithReference = {}

\* the plain formatter wrote the error line of a failed invocation with a
\* resource reference in it
C27_PlainErrorLineWithReference ==
    /\ Failed /\ ~propagated
    /\ ~use_structured
    /\ Len(log) \in LinesWithReference
    /\ log[Len(log)].level = "ERROR"

\* the role references sent by the calls of one external operation
RolesSent(op) ==
    {calls[i].params.roleArn : i \in {j \in 1..Len(calls) : /\ calls[j].op = op
                                                            /\ "roleArn" \in DOMAIN calls[j].params}}

\* C28: every role reference sent in an external create or update call of a
\* knowledge base has the canonical form arn:aws:iam::<12 digits>:role/<name>.
C28_RoleSentIsCanonical ==
    \A role \in RolesSent("create_knowledge_base") \cup RolesSent("update_knowledge_base") :
        MatchesArnPattern(role)

\* the part of it that create_knowledge_base keeps
C28_RoleCreatedWithIsCanonical ==
    \A role \in RolesSent("create_knowledge_base") : MatchesArnPattern(role)

\* update_knowledge_base sent the shorthand it was given
C28_ShorthandSentByUpdate ==
    /\ Replied
    /\ tool = "update_knowledge_base"
    /\ args.role_arn = ROLE_SHORT
    /\ RolesSent("update_knowledge_base") = {ROLE_SHORT}

\* update_knowledge_base sent a bare name, neither canonical nor shorthand
C28_BareNameSentByUpdate ==
    /\ Replied
    /\ tool = "update_knowledge_base"
    /\ args.role_arn = MY_ROLE
    /\ RolesSent("update_knowledge_base") = {MY_ROLE}

\* the optional parameters of update_knowledge_base and the keys they are sent under
UpdateKeys == [name |-> "name", description |-> "description", role_arn |-> "roleArn"]

\* those of them that are not empty once trimmed
UpdateGiven == {p \in DOMAIN UpdateKeys : Strip(args[p]) # <<>>}

\* C30: an update_knowledge_base invocation with an id issues one external
\* update call whose parameters are the trimmed id and, each under its key, the
\* trimmed values of those of name, description and role_arn that are not empty
\* once trimmed, and nothing else; when it returns, the record carries the id and
\* the status of the service's response.
C30_UpdateSendsOnlyWhatIsGiven ==
    (Replied /\ tool = "update_knowledge_base" /\ Strip(args.knowledge_base_id) # <<>>) =>
        /\ Len(calls) = 1
        /\ calls[1].svc = "bedrock-agent" /\ calls[1].op = "update_knowledge_base"
        /\ DOMAIN calls[1].params = {"knowledgeBaseId"} \cup {UpdateKeys[p] : p \in UpdateGiven}
        /\ calls[1].params.knowledgeBaseId = Strip(args.knowledge_base_id)
        /\ \A p \in UpdateGiven : calls[1].params[UpdateKeys[p]] = Strip(args[p])
        /\ outcome.kind = "return" =>
               /\ result.knowledge_base_id = answers.update.resp.id
               /\ result.status = answers.update.resp.status

C30_BlankNameLeftOut ==
    /\ Replied
    /\ tool = "update_knowledge_base"
    /\ args.name = <<" ">> /\ args.description = <<" ", "d", " ">> /\ args.role_arn = <<>>
    /\ calls = <<Call("bedrock-agent", "update_knowledge_base",
                      [knowledgeBaseId |-> KB_ID, description |-> <<"d">>])>>
    /\ outcome.kind = "return"
    /\ result.knowledge_base_id = KB_ID /\ result.status = "UPDATING"

(***************************************************************************)
(* Properties of the normalizer (specification SpecNorm).                  *)
(***************************************************************************)
\* C9 as stated: a reference normalize_s3_arn_or_uri accepts is accepted again
\* when normalized a second time, with the same result.
C9_NormalizationIsIdempotent ==
    stage = "twice" => twice = once

C9_SecondResultDiffers ==
    /\ stage = "twice"
    /\ ref = S3_URI_PREFIX \o <<"b", "b", " ", "/", "p">>
    /\ once = Return(S3_ARN_PREFIX \o <<"b", "b", " ">>)
    /\ twice = Return(S3_ARN_PREFIX \o <<"b", "b">>)

Unpadded == parts.lpad = <<>> /\ parts.rpad = <<>>
ValidBucket == BucketNameError(parts.bucket) = <<>>

\* C10: 's3://<bucket>' and 's3://<bucket>/<path>' with a valid bucket name
\* normalize to 'arn:aws:s3:::<bucket>', whatever follows the bucket name dropped;
\* 'arn:aws:s3:::<bucket>' is returned as it is.
C10_ShorthandBecomesBucketArn ==
    (stage \in {"once", "twice"} /\ Unpadded /\ ValidBucket) =>
        /\ parts.prefix = S3_URI_PREFIX => once = Return(S3_ARN_PREFIX \o parts.bucket)
        /\ (parts.prefix = S3_ARN_PREFIX /\ parts.path = <<>>) => once = Return(ref)

C10_PathDiscarded ==
    /\ stage = "once"
    /\ ref = BUCKET_URI \o <<"/", "p", "/", "p">>
    /\ once = Return(BUCKET_ARN)

\* the reference as the normalizer reads it, and what follows the prefix of a
\* returned value
Trimmed == Strip(ref)
ReturnedBucket == Drop(once.value, Len(S3_ARN_PREFIX))

\* C11 as stated: a value normalize_s3_arn_or_uri returns is 'arn:aws:s3:::<bucket>'
\* with a bucket name of 3 to 63 characters and no path; an input that is neither
\* canonical nor shorthand, and a shorthand whose bucket name is shorter than 3 or
\* longer than 63 characters, fails with a ValueError.
C11_ReturnedValueIsCanonical ==
    stage \in {"once", "twice"} =>
        /\ once.kind = "return" =>
               /\ StartsWith(once.value, S3_ARN_PREFIX)
               /\ Len(ReturnedBucket) \in MinBucketLen..MaxBucketLen
               /\ ~Contains(ReturnedBucket, <<"/">>)
        /\ (~StartsWith(Trimmed, S3_ARN_PREFIX) /\ ~StartsWith(Trimmed, S3_URI_PREFIX)) =>
               (once.kind = "raise" /\ once.exc.type = "ValueError")
        /\ (StartsWith(Trimmed, S3_URI_PREFIX)
               /\ Len(SplitFirst(Drop(Trimmed, Len(S3_URI_PREFIX)), "/")) \notin MinBucketLen..MaxBucketLen) =>
               (once.kind = "raise" /\ once.exc.type = "ValueError")

C11_ShortBucketArnReturned ==
    /\ stage = "once"
    /\ ref = S3_ARN_PREFIX \o <<"b", "b">>
    /\ once = Return(ref)

(***************************************************************************)
(* Properties of the role normalizer (specification SpecRole).             *)
(***************************************************************************)
IsCanonicalRole == MatchesArnPattern(Trimmed)

\* 'arn:aws:iam::role/<name>' or 'role/<name>' with a name
IsShorthandRole ==
    /\ ~IsCanonicalRole
    /\ \/ StartsWith(Trimmed, IAM_SHORT_PREFIX) /\ Len(Trimmed) > Len(IAM_SHORT_PREFIX)
       \/ StartsWith(Trimmed, ROLE_PREFIX) /\ Len(Trimmed) > Len(ROLE_PREFIX)

\* C12 as stated: normalize_iam_role_arn returns a canonical reference as it is
\* with no identity lookup; for each shorthand form it makes exactly one lookup
\* and, the lookup answered, returns a canonical reference carrying the looked-up
\* account id; for every other input it raises ValueError with no lookup.
C12_RoleReferenceNormalized ==
    stage = "role" =>
        /\ IsCanonicalRole => (once = Return(Trimmed) /\ calls = <<>>)
        /\ IsShorthandRole =>
               /\ calls = <<StsCall>>
               /\ LookupAnswered =>
                      /\ once.kind = "return"
                      /\ MatchesArnPattern(once.value)
                      /\ StartsWith(once.value, IAM_ARN_PREFIX \o ACCOUNT \o COLON_ROLE_PREFIX)
        /\ (~IsCanonicalRole /\ ~IsShorthandRole) =>
               /\ once.kind = "raise"
               /\ once.exc.type = "ValueError"
               /\ calls = <<>>

C12_NameLostInCompletion ==
    /\ stage = "role"
    /\ ref = ROLE_PREFIX \o ROLE_PREFIX
    /\ LookupAnswered
    /\ calls = <<StsCall>>
    /\ once = Return(IAM_ARN_PREFIX \o ACCOUNT \o COLON_ROLE_PREFIX)
    /\ ~MatchesArnPattern(once.value)

\* the role reference is a shorthand prefix followed by a name, with nothing around
ShorthandOfName ==
    /\ stage = "role"
    /\ parts.lpad = <<>> /\ parts.rpad = <<>>
    /\ parts.prefix \in {ROLE_PREFIX, IAM_SHORT_PREFIX}
    /\ parts.bucket # <<>>
    /\ LookupAnswered

NamePreserved == once = Return(IAM_ARN_PREFIX \o ACCOUNT \o COLON_ROLE_PREFIX \o parts.bucket)

\* C29: for every non-empty role name, those holding the text 'role/' included,
\* normalize_iam_role_arn('role/' + name) and
\* normalize_iam_role_arn('arn:aws:iam::role/' + name) both return
\* 'arn:aws:iam::' + account + ':role/' + name.
C29_ShorthandKeepsRoleName ==
    ShorthandOfName => NamePreserved

\* the part of it that holds: a name is kept unless it holds the prefix removed
C29_NameWithoutPrefixKept ==
    (ShorthandOfName /\ ~Contains(parts.bucket, parts.prefix)) => NamePreserved

\* 'role/service-role/MyRole' comes back as the role 'service-MyRole'
C29_ServiceRolePathLost ==
    /\ ShorthandOfName
    /\ ref = ROLE_PREFIX \o Tail(SERVICE_ROLE_PATH) \o MY_ROLE
    /\ once = Return(IAM_ARN_PREFIX \o ACCOUNT \o COLON_ROLE_PREFIX
                     \o <<"s", "e", "r", "v", "i", "c", "e", "-">> \o MY_ROLE)

====
